---- MODULE Spec2Model ----
(***************************************************************************)
(* Model of yahoo_persistent_enhanced_complete.py: the persistence layer   *)
(* (DatabaseManager), the per-domain JSON snapshot store (FileManager),    *)
(* the per-account worker (PersistentAccountScraper) and the supervisor    *)
(* (SimultaneousPersistentManager).                                        *)
(***************************************************************************)
EXTENDS Integers, Sequences, FiniteSets, TLC

(***************************************************************************)
(* Python values.  None is <<>>, a present value v is <<v>>.  A dict is a  *)
(* function whose DOMAIN is the set of its keys.                           *)
(***************************************************************************)
None == <<>>

Some(v) == <<v>>

\* dict.get(k, d)
Get(d, k, default) == IF k \in DOMAIN d THEN d[k] ELSE default

Min(a, b) == IF a <= b THEN a ELSE b

Zeros(n) == [i \in 1..n |-> 0]

(***************************************************************************)
(* Python floats are IEEE-754 binary64.  A non-negative float is           *)
(* [m, e]: a significand of exactly FloatBits bits, most significant bit   *)
(* first and equal to 1, worth m * 2^e; zero is [m |-> <<>>, e |-> 0].     *)
(* Arithmetic rounds to nearest, ties to even, as the hardware does.       *)
(* (The metrics are non-negative and far from the subnormal and overflow   *)
(* ranges, which are left out.)                                            *)
(***************************************************************************)
FloatBits == 53

\* PostgreSQL's REAL column is binary32
RealBits == 24

FZero == [m |-> <<>>, e |-> 0]

RECURSIVE StripZeros(_)
StripZeros(b) == IF b # <<>> /\ Head(b) = 0 THEN StripZeros(Tail(b)) ELSE b

\* Bit strings are handled a chunk of 8 bits (base 256) at a time.
RECURSIVE BitsVal(_)
BitsVal(b) == IF b = <<>> THEN 0 ELSE 2 * BitsVal(SubSeq(b, 1, Len(b) - 1)) + b[Len(b)]

RECURSIVE NatBits(_)
NatBits(n) == IF n = 0 THEN <<>> ELSE Append(NatBits(n \div 2), n % 2)

PadLeft(b, n) == Zeros(n - Len(b)) \o b

\* the length of b rounded up to whole chunks
ChunkLen(b) == ((Len(b) + 7) \div 8) * 8

\* a + b + c of two bit strings of the same whole number of chunks
RECURSIVE AddChunks(_, _, _)
AddChunks(a, b, c) ==
    IF a = <<>>
    THEN IF c = 1 THEN <<1>> ELSE <<>>
    ELSE LET n == Len(a)
             s == BitsVal(SubSeq(a, n - 7, n)) + BitsVal(SubSeq(b, n - 7, n)) + c
         IN  AddChunks(SubSeq(a, 1, n - 8), SubSeq(b, 1, n - 8), s \div 256)
             \o PadLeft(NatBits(s % 256), 8)

\* a + b + c of two bit strings (most significant bit first) and a carry
AddBits(a, b, c) ==
    LET n == IF ChunkLen(a) >= ChunkLen(b) THEN ChunkLen(a) ELSE ChunkLen(b)
    IN  StripZeros(AddChunks(PadLeft(a, n), PadLeft(b, n), c))

\* bits * 2^e rounded to a float of p significant bits (nearest, ties to even)
RoundTo(bits0, e, p) ==
    LET bits == StripZeros(bits0)
        n    == Len(bits)
    IN  IF bits = <<>> THEN FZero
        ELSE IF n <= p THEN [m |-> bits \o Zeros(p - n), e |-> e - (p - n)]
        ELSE LET kept   == SubSeq(bits, 1, p)
                 guard  == bits[p + 1]
                 sticky == \E i \in (p + 2)..n : bits[i] = 1
                 up     == guard = 1 /\ (sticky \/ kept[p] = 1)
                 inc    == IF up THEN AddBits(kept, <<>>, 1) ELSE kept
             IN  IF Len(inc) > p
                 THEN [m |-> SubSeq(inc, 1, p), e |-> e + (n - p) + 1]
                 ELSE [m |-> inc, e |-> e + (n - p)]

\* x + y of two floats
FAdd(x, y) ==
    IF x.m = <<>> THEN y
    ELSE IF y.m = <<>> THEN x
    ELSE LET e0 == Min(x.e, y.e)
         IN  RoundTo(AddBits(x.m \o Zeros(x.e - e0), y.m \o Zeros(y.e - e0), 0),
                     e0, FloatBits)

\* long division of a bit string of whole chunks by n: the quotient's bits,
\* then one more bit that is 1 iff a remainder is left
RECURSIVE DivChunks(_, _, _)
DivChunks(bits, n, rem) ==
    IF bits = <<>> THEN <<IF rem # 0 THEN 1 ELSE 0>>
    ELSE LET r == 256 * rem + BitsVal(SubSeq(bits, 1, 8))
         IN  PadLeft(NatBits(r \div n), 8)
             \o DivChunks(SubSeq(bits, 9, Len(bits)), n, r % n)

\* x / n of a float by a positive int below 64 (the int converts exactly);
\* the quotient is taken to 8 bits more than the significand, then rounded
FDivNat(x, n) ==
    IF x.m = <<>> THEN FZero
    ELSE LET num == x.m \o Zeros(8)
         IN  RoundTo(DivChunks(PadLeft(num, ChunkLen(num)), n, 0),
                     x.e - 9, FloatBits)

\* float(n) of a non-negative int
NatToFloat(n) == RoundTo(NatBits(n), 0, FloatBits)

\* the value a REAL column keeps of a float
ToReal(x) == IF x.m = <<>> THEN FZero
             ELSE LET r == RoundTo(x.m, x.e, RealBits)
                  IN  [m |-> r.m \o Zeros(FloatBits - RealBits),
                       e |-> r.e - (FloatBits - RealBits)]

RECURSIVE HexBits(_)
HexBits(h) == IF h = <<>> THEN <<>>
              ELSE <<(Head(h) \div 8) % 2, (Head(h) \div 4) % 2,
                     (Head(h) \div 2) % 2, Head(h) % 2>> \o HexBits(Tail(h))

\* float.hex(0.01) = 0x1.47ae147ae147bp-7; 0.02 and 0.04 are its doubles
Sig001 == <<1>> \o HexBits(<<4, 7, 10, 14, 1, 4, 7, 10, 14, 1, 4, 7, 11>>)

F001 == [m |-> Sig001, e |-> -59]

F002 == [m |-> Sig001, e |-> -58]

F004 == [m |-> Sig001, e |-> -57]


(***************************************************************************)
(* The accounts, the domains and the statistics an extraction can return.  *)
(***************************************************************************)
Accounts == {"a@yahoo.com", "b@yahoo.com", "c@yahoo.com"}

Domains == {"x.com", "y.com"}

\* what extract_domain_stats can return for a domain, less 'domain' and
\* 'timestamp': full data, data without has_data, data without
\* delivered_count, and the "no data" page
StatsShapes ==
    { [status |-> "verified", verified |-> TRUE, delivered_count |-> Some(100),
       complaint_rate |-> Some(F001), has_data |-> TRUE],
      [status |-> "verified", verified |-> TRUE, delivered_count |-> Some(200),
       complaint_rate |-> Some(F002)],
      [status |-> "pending", verified |-> FALSE, delivered_count |-> None,
       complaint_rate |-> Some(F004), has_data |-> TRUE],
      [status |-> "pending", delivered_count |-> None, complaint_rate |-> None,
       has_data |-> FALSE] }

\* the accounts and the statistics the persistence layer is exercised with
DbAccounts == {"a@yahoo.com", "b@yahoo.com"}

DbShapes == {s \in StatsShapes : (s.delivered_count = Some(100))
                                    \/ ~Get(s, "has_data", TRUE)}

\* a dict with one more key
With(d, k, v) == [x \in DOMAIN d \cup {k} |-> IF x = k THEN v ELSE d[x]]

\* the stats dict of one extraction of domain d at time t
StatsOf(shape, d, t) == With(With(shape, "domain", d), "timestamp", t)

(***************************************************************************)
(* State of the persistence layer (DatabaseManager and PostgreSQL).        *)
(*   domain_stats   the rows of table domain_stats                         *)
(*   id_seq         the next value of the table's SERIAL id                *)
(*   db_available   DatabaseManager.db_available                           *)
(*   db_up          whether the PostgreSQL server accepts connections      *)
(*   now            the clock (datetime.now(), CURRENT_TIMESTAMP)          *)
(*   latest_input   per key, the row values of the last executed upsert    *)
(*   last_call      the last persistence call and what it returned         *)
(***************************************************************************)
VARIABLES domain_stats, id_seq, db_available, db_up, now, latest_input, last_call

dbVars == <<domain_stats, id_seq, db_available, db_up, now, latest_input, last_call>>

(***************************************************************************)
(* State of the snapshot store (FileManager and the files under data/).    *)
(*   files     per domain, the file: absent, unparseable (just truncated   *)
(*             by open(..., 'w'), or overwritten by two writers at once),  *)
(*             or holding a document                                       *)
(*   json_pc   per account, where its save_domain_json call stands         *)
(*   json_loc  per account, the call's domain and existing_data            *)
(*   merged    per domain, the accounts whose save_domain_json returned    *)
(*             the path (completed a merge)                                *)
(*   merges    the number of save_domain_json calls started                *)
(***************************************************************************)
VARIABLES files, json_pc, json_loc, merged, merges

snapVars == <<files, json_pc, json_loc, merged, merges>>

(***************************************************************************)
(* State of the workers, per account: the fields of its                    *)
(* PersistentAccountScraper and the locals of the thread that runs         *)
(* start_persistent_scraping on it.                                        *)
(*   w_pc                  where the thread stands ("new": not started;    *)
(*                         "exit_setup", "exit_login", "exit_loop": it     *)
(*                         returned at line 1355, at line 1368, or after   *)
(*                         the loop)                                       *)
(*   driver                self.driver: None or an open browser            *)
(*   logged_in             self.logged_in                                  *)
(*   is_running            self.is_running                                 *)
(*   previous_domains      self.previous_domains                           *)
(*   setup_attempt         attempt of setup_persistent_driver              *)
(*   init_attempt          attempt of the initial login loop               *)
(*   login_attempt         login_attempt of guaranteed_login               *)
(*   consecutive_failures  of the cycle loop                               *)
(*   cycle_count           of the cycle loop (it stops counting at         *)
(*                         MaxCycles)                                      *)
(*   wait_i                i of the hourly wait loop                       *)
(*   sleep_left            seconds left of the time.sleep the thread is in *)
(*   since_stop            seconds the thread has lived since              *)
(*                         stop_scraping was called                        *)
(***************************************************************************)
VARIABLES w_pc, driver, logged_in, is_running, previous_domains, setup_attempt,
          init_attempt, login_attempt, consecutive_failures, cycle_count, wait_i,
          sleep_left, since_stop

scraperVars == <<driver, logged_in, is_running, previous_domains>>

threadVars == <<w_pc, setup_attempt, init_attempt, login_attempt,
                consecutive_failures, cycle_count, wait_i, sleep_left, since_stop>>

workerVars == <<scraperVars, threadVars>>

(***************************************************************************)
(* State of the supervisor (SimultaneousPersistentManager, main thread).   *)
(*   sup_pc         where the main thread stands                           *)
(*   sup_i          the index of the loop it is in                         *)
(*   sup_caller     who called stop_all_accounts last                      *)
(*   mgr_running    self.is_running of the manager                         *)
(*   monitor_count  monitor_count modulo StatusEvery, of every active call *)
(*                  of keep_main_thread_alive                              *)
(*   scrapers       self.scrapers (and self.threads, index by index): the  *)
(*                  accounts whose scraper and thread are tracked          *)
(***************************************************************************)
VARIABLES sup_pc, sup_i, sup_caller, mgr_running, monitor_count, scrapers

supVars == <<sup_pc, sup_i, sup_caller, mgr_running, monitor_count, scrapers>>

(***************************************************************************)
(* State of the AccountManager and what it reads.                          *)
(*   accounts_file  the account entries of accounts.json (an entry may     *)
(*                  have no 'enabled' field)                               *)
(*   env_account    YAHOO_EMAIL, when it and YAHOO_PASSWORD are set        *)
(*   enabled_accounts  self.accounts: what load_accounts returned          *)
(***************************************************************************)
VARIABLES accounts_file, env_account, enabled_accounts

acctVars == <<accounts_file, env_account, enabled_accounts>>

(***************************************************************************)
(* State of one batch (run_hourly_scrape_enhanced) of a worker.            *)
(*   batch_pc       "idle", "running" or "done"                            *)
(*   batch_domains  the entities of the batch, in the order they are taken *)
(*   batch_i        the index of the entity taken next                     *)
(*   batch_log      what became of every entity attempted so far           *)
(***************************************************************************)
VARIABLES batch_pc, batch_domains, batch_i, batch_log

batchVars == <<batch_pc, batch_domains, batch_i, batch_log>>

(***************************************************************************)
(* State of one call of guaranteed_login, attempt by attempt.              *)
(*   gl_pc         "idle", "attempt" (a login_attempt is under way),       *)
(*                 "sleep" (the backoff before the next one), "returned"   *)
(*   gl_attempt    login_attempt, the index of the attempt                 *)
(*   gl_ended      what each attempt made so far ended in, in order        *)
(*   gl_page       the page the last attempt looked at: whether a          *)
(*                 dashboard indicator is displayed, whether the URL is    *)
(*                 one of the dashboard, and whether the page source       *)
(*                 holds a marker                                          *)
(*   gl_sleep      the seconds of the backoff                              *)
(*   gl_return     the value returned: None before the call returned       *)
(*   gl_logged_in  self.logged_in                                          *)
(***************************************************************************)
VARIABLES gl_pc, gl_attempt, gl_ended, gl_page, gl_sleep, gl_return,
          gl_logged_in

loginVars == <<gl_pc, gl_attempt, gl_ended, gl_page, gl_sleep, gl_return,
               gl_logged_in>>

(***************************************************************************)
(* The audit tables of the persistence layer.                              *)
(*   scraping_sessions  the rows of table scraping_sessions                *)
(*   scraping_accounts  the rows of table scraping_accounts                *)
(*   session_seq        the next value of the SERIAL id of                 *)
(*                      scraping_sessions                                  *)
(***************************************************************************)
VARIABLES scraping_sessions, scraping_accounts, session_seq

auditVars == <<scraping_sessions, scraping_accounts, session_seq>>

(***************************************************************************)
(* The browser session of a scraper, as the methods that keep it valid     *)
(* find it, per account.                                                   *)
(*   browser_dead   the browser of self.driver does not answer any more    *)
(*   session_valid  the page of the browser shows the dashboard: what      *)
(*                  check_if_logged_in finds on a browser that answers     *)
(*   last_validity  the last call of guaranteed_login, ensure_browser_     *)
(*                  alive, ensure_logged_in or safe_refresh_browser and    *)
(*                  what it returned; n tells a call from the one before   *)
(***************************************************************************)
VARIABLES browser_dead, session_valid, last_validity

sessVars == <<browser_dead, session_valid, last_validity>>

vars == <<dbVars, snapVars, workerVars, supVars, acctVars, batchVars, loginVars, auditVars, sessVars>>

(***************************************************************************)
(* DatabaseManager.                                                        *)
(***************************************************************************)
\* the clock stops at MaxNow; a day has TicksPerDay ticks
MaxNow == 2

TicksPerDay == 2

\* upserts are executed while the id sequence is at most MaxId
MaxId == 2

\* the limits get_all_domains_stats is called with
MaxLimit == 2

\* audit sessions are started while the id sequence is at most MaxSessions
MaxSessions == 2

\* date.today() / CURRENT_DATE
Today(t) == t \div TicksPerDay

Key(r) == <<r.account_email, r.domain_name, r.date>>

\* the VALUES list of the INSERT in save_domain_stats
InsertValues(stats, account_email, current_date) ==
    [account_email   |-> account_email,
     domain_name     |-> stats.domain,
     status          |-> Get(stats, "status", None),
     verified        |-> Get(stats, "verified", FALSE),
     timestamp       |-> stats.timestamp,
     date            |-> current_date,
     delivered_count |-> Get(stats, "delivered_count", None),
     complaint_rate  |-> LET c == Get(stats, "complaint_rate", None)
                         IN  IF c = None THEN None ELSE Some(ToReal(c[1])),
     has_data        |-> Get(stats, "has_data", TRUE)]

\* a row: the inserted values, the id and created_at
Row(vals, id, created_at) ==
    With(With(vals, "id", id), "created_at", created_at)

\* a row less id and created_at
Values(r) == [k \in DOMAIN r \ {"id", "created_at"} |-> r[k]]

\* (mutant) ON CONFLICT ... DO NOTHING: the first row of a key is kept
UpsertDoNothing(table, vals, id, t) ==
    IF \E r \in table : Key(r) = Key(vals) THEN table
    ELSE table \cup {Row(vals, id, t)}

\* (mutant) ON CONFLICT (domain_name, date): the account is not in the key
UpsertKeyWithoutAccount(table, vals, id, t) ==
    LET conflict == {r \in table : /\ r.domain_name = vals.domain_name
                                   /\ r.date = vals.date}
    IN  IF conflict = {}
        THEN table \cup {Row(vals, id, t)}
        ELSE (table \ conflict) \cup {Row(vals, r.id, t) : r \in conflict}

\* (mutant) a record without data is not written
UpsertSkipNoData(table, vals, id, t) ==
    LET conflict == {r \in table : Key(r) = Key(vals)}
    IN  IF ~vals.has_data THEN table
        ELSE IF conflict = {}
        THEN table \cup {Row(vals, id, t)}
        ELSE (table \ conflict) \cup {Row(vals, r.id, t) : r \in conflict}

\* INSERT ... ON CONFLICT (account_email, domain_name, date) DO UPDATE SET ...
Upsert(table, vals, id, t) ==
    LET conflict == {r \in table : Key(r) = Key(vals)}
    IN  IF conflict = {}
        THEN table \cup {Row(vals, id, t)}
        ELSE (table \ conflict) \cup {Row(vals, r.id, t) : r \in conflict}

DbInit ==
    /\ domain_stats = {}
    /\ id_seq = 1
    /\ db_available = TRUE
    /\ db_up = TRUE
    /\ now = 0
    /\ latest_input = <<>>
    /\ last_call = [op |-> "none"]

\* DatabaseManager.save_domain_stats.  fault: the statement or the commit
\* raises (the connection drops after it was opened).
save_domain_stats(shape, d, account_email, fault) ==
    LET stats == StatsOf(shape, d, now)
        vals  == InsertValues(stats, account_email, Today(now))
        call  == [op |-> "save", key |-> Key(vals), reachable |-> db_up /\ ~fault]
    IN  /\ id_seq <= MaxId
        /\ IF ~db_available
           THEN \* the guard at the top returns False
                /\ ~fault
                /\ last_call' = With(call, "ret", FALSE)
                /\ UNCHANGED <<domain_stats, id_seq, db_available, latest_input>>
           ELSE IF ~db_up
           THEN \* get_connection fails on every host and clears db_available;
                \* get_cursor yields the dummy cursor, whose execute does
                \* nothing, and the function returns True
                /\ ~fault
                /\ db_available' = FALSE
                /\ last_call' = With(call, "ret", TRUE)
                /\ UNCHANGED <<domain_stats, id_seq, latest_input>>
           ELSE IF fault
           THEN \* rollback, then the except clause
                /\ db_available' = FALSE
                /\ last_call' = With(call, "ret", FALSE)
                /\ UNCHANGED <<domain_stats, id_seq, latest_input>>
           ELSE /\ domain_stats' = Upsert(domain_stats, vals, id_seq, now)
                /\ id_seq' = id_seq + 1
                /\ latest_input' = With(latest_input, Key(vals), vals)
                /\ last_call' = With(call, "ret", TRUE)
                /\ UNCHANGED db_available
        /\ UNCHANGED <<db_up, now>>

SaveDomainStats ==
    \E shape \in DbShapes, d \in Domains, a \in DbAccounts, fault \in BOOLEAN :
        save_domain_stats(shape, d, a, fault)

\* WHERE domain_name = %s [AND account_email = %s]
RowsOfDomain(table, d, account_email) ==
    {r \in table : /\ r.domain_name = d
                   /\ account_email # None => r.account_email = account_email[1]}

\* the rows a WHERE account_email = %s keeps (no filter when account is None)
Eligible(table, account_email) ==
    IF account_email = None THEN table
    ELSE {r \in table : r.account_email = account_email[1]}

\* SELECT domain_name, MAX(timestamp) ... GROUP BY domain_name, for one domain
MaxTimestamp(rows, d) ==
    CHOOSE t \in {r.timestamp : r \in {q \in rows : q.domain_name = d}} :
        \A r \in rows : r.domain_name = d => r.timestamp <= t

\* ds1 INNER JOIN ds2 ON ds1.domain_name = ds2.domain_name
\*                    AND ds1.timestamp = ds2.max_timestamp
LatestJoin(table, account_email) ==
    LET rows == Eligible(table, account_email)
    IN  {r \in rows : r.timestamp = MaxTimestamp(rows, r.domain_name)}

\* ORDER BY timestamp DESC LIMIT n: every list the server may return
\* (rows of equal timestamp come in any order)
OrderDescLimit(rows, n) ==
    LET len == Min(n, Cardinality(rows))
    IN  {q \in [1..len -> rows] :
            /\ \A i, j \in 1..len : i < j =>
                   q[i] # q[j] /\ q[i].timestamp >= q[j].timestamp
            /\ \A r \in rows : (\A i \in 1..len : q[i] # r) =>
                   \A i \in 1..len : q[i].timestamp >= r.timestamp}

\* DatabaseManager.get_all_domains_stats
get_all_domains_stats(limit, account_email, fault) ==
    LET call == [op |-> "get_all", account_email |-> account_email,
                 limit |-> limit, reachable |-> db_up /\ ~fault]
    IN  /\ IF ~db_available \/ ~db_up \/ fault
           THEN /\ ~db_available => ~fault
                /\ ~db_up => ~fault
                /\ db_available' = (db_available /\ db_up)
                /\ last_call' = With(call, "ret", <<>>)
           ELSE /\ \E q \in OrderDescLimit(LatestJoin(domain_stats, account_email),
                                           limit) :
                       last_call' = With(call, "ret", q)
                /\ UNCHANGED db_available
        /\ UNCHANGED <<domain_stats, id_seq, db_up, now, latest_input>>

GetAllDomainsStats ==
    \E limit \in 1..MaxLimit, a \in {None} \cup {Some(x) : x \in DbAccounts},
       fault \in BOOLEAN :
        get_all_domains_stats(limit, a, fault)

\* DatabaseManager.get_latest_domain_stats
get_latest_domain_stats(d, account_email, fault) ==
    LET call == [op |-> "get_latest", domain |-> d, account_email |-> account_email,
                 reachable |-> db_up /\ ~fault]
    IN  /\ IF ~db_available \/ ~db_up \/ fault
           THEN \* the guard, the dummy cursor's fetchone, or the except clause
                /\ ~db_available => ~fault
                /\ ~db_up => ~fault
                /\ db_available' = (db_available /\ db_up)
                /\ last_call' = With(call, "ret", None)
           ELSE /\ \E q \in OrderDescLimit(RowsOfDomain(domain_stats, d, account_email),
                                           1) :
                       last_call' = With(call, "ret",
                                         IF q = <<>> THEN None ELSE Some(q[1]))
                /\ UNCHANGED db_available
        /\ UNCHANGED <<domain_stats, id_seq, db_up, now, latest_input>>

GetLatestDomainStats ==
    \E d \in Domains, a \in {None} \cup {Some(x) : x \in DbAccounts},
       fault \in BOOLEAN :
        get_latest_domain_stats(d, a, fault)

AuditInit ==
    /\ scraping_sessions = {}
    /\ scraping_accounts = {}
    /\ session_seq = 1

\* DatabaseManager.start_scraping_session.  fault: a statement or the commit
\* raises
start_scraping_session(total_domains, account_email, fault) ==
    LET call == [op |-> "start_session", account_email |-> account_email,
                 reachable |-> db_up /\ ~fault]
        seen == {r \in scraping_accounts : r.email = account_email}
    IN  /\ session_seq <= MaxSessions
        /\ IF ~db_available \/ ~db_up \/ fault
           THEN \* the guard, the dummy cursor's fetchone, or the except clause:
                \* return 1
                /\ ~db_available => ~fault
                /\ ~db_up => ~fault
                /\ db_available' = (db_available /\ (db_up \/ fault))
                /\ last_call' = With(call, "ret", 1)
                /\ UNCHANGED auditVars
           ELSE /\ scraping_accounts' = (scraping_accounts \ seen) \cup
                       (IF seen = {}
                        THEN {[email |-> account_email, last_used |-> now,
                               total_sessions |-> 1]}
                        ELSE {[email |-> account_email, last_used |-> now,
                               total_sessions |-> r.total_sessions + 1] : r \in seen})
                /\ scraping_sessions' = scraping_sessions \cup
                       {[id |-> session_seq, account_email |-> account_email,
                         session_start |-> now, session_end |-> None,
                         domains_processed |-> 0, total_domains |-> total_domains,
                         status |-> "running"]}
                /\ session_seq' = session_seq + 1
                /\ last_call' = With(call, "ret", session_seq)
                /\ UNCHANGED db_available
        /\ UNCHANGED <<domain_stats, id_seq, db_up, now, latest_input>>

\* (mutant) update_scraping_session without its guard on db_available
UpdateScrapingSessionUnguarded(session_id, domains_processed, status, fault) ==
    LET call == [op |-> "update_session", session_id |-> session_id,
                 status |-> status, reachable |-> db_up /\ ~fault]
        rows == {r \in scraping_sessions : r.id = session_id}
    IN  /\ IF ~db_up \/ fault
           THEN /\ ~db_up => ~fault
                /\ db_available' = (db_available /\ (db_up \/ fault))
                /\ UNCHANGED auditVars
           ELSE /\ scraping_sessions' = (scraping_sessions \ rows) \cup
                       {[r EXCEPT !.domains_processed = domains_processed,
                                  !.status = status,
                                  !.session_end = IF status = "completed"
                                                  THEN Some(now) ELSE @] :
                            r \in rows}
                /\ UNCHANGED <<db_available, scraping_accounts, session_seq>>
        /\ last_call' = With(call, "ret", None)
        /\ UNCHANGED <<domain_stats, id_seq, db_up, now, latest_input>>

\* DatabaseManager.update_scraping_session
update_scraping_session(session_id, domains_processed, status, fault) ==
    LET call == [op |-> "update_session", session_id |-> session_id,
                 status |-> status, reachable |-> db_up /\ ~fault]
        rows == {r \in scraping_sessions : r.id = session_id}
    IN  /\ IF ~db_available \/ ~db_up \/ fault
           THEN /\ ~db_available => ~fault
                /\ ~db_up => ~fault
                /\ db_available' = (db_available /\ (db_up \/ fault))
                /\ UNCHANGED auditVars
           ELSE /\ scraping_sessions' = (scraping_sessions \ rows) \cup
                       {[r EXCEPT !.domains_processed = domains_processed,
                                  !.status = status,
                                  !.session_end = IF status = "completed"
                                                  THEN Some(now) ELSE @] :
                            r \in rows}
                /\ UNCHANGED <<db_available, scraping_accounts, session_seq>>
        /\ last_call' = With(call, "ret", None)
        /\ UNCHANGED <<domain_stats, id_seq, db_up, now, latest_input>>

\* (mutant) init_database with CREATE TABLE IF NOT EXISTS and no DROP
InitDatabaseKeepingTables(fault) ==
    /\ ~db_up => ~fault
    /\ db_available' = (db_up /\ ~fault)
    /\ last_call' = [op |-> "init_database", reachable |-> db_up /\ ~fault]
    /\ UNCHANGED <<domain_stats, id_seq, latest_input, auditVars, db_up, now>>

\* a process starts: main makes a DatabaseManager and calls init_database
\* until it returns.  fault: the statements of init_database raise on each
\* of its attempts, the server being up.  init_database returns without
\* raising, the tables dropped and made again, or db_available cleared (by
\* get_connection, or by its last attempt, after which the next call
\* returns at its guard).
init_database(fault) ==
    /\ ~db_up => ~fault
    /\ IF db_up /\ ~fault
       THEN /\ domain_stats' = {}
            /\ id_seq' = 1
            /\ latest_input' = <<>>
            /\ scraping_sessions' = {}
            /\ scraping_accounts' = {}
            /\ session_seq' = 1
            /\ db_available' = TRUE
       ELSE /\ db_available' = FALSE
            /\ UNCHANGED <<domain_stats, id_seq, latest_input, auditVars, sessVars>>
    /\ last_call' = [op |-> "init_database", reachable |-> db_up /\ ~fault]
    /\ UNCHANGED <<db_up, now>>

\* time passes
Tick ==
    /\ now < MaxNow
    /\ now' = now + 1
    /\ UNCHANGED <<domain_stats, id_seq, db_available, db_up, latest_input, last_call>>

\* the database server goes down or comes back
DbDown ==
    /\ db_up
    /\ db_up' = FALSE
    /\ UNCHANGED <<domain_stats, id_seq, db_available, now, latest_input, last_call>>

DbUp ==
    /\ ~db_up
    /\ db_up' = TRUE
    /\ UNCHANGED <<domain_stats, id_seq, db_available, now, latest_input, last_call>>

(***************************************************************************)
(* FileManager: one JSON document per domain under data/.  A document's    *)
(* 'accounts' dict keeps insertion order, as Python dicts, json.load and   *)
(* json.dump do: it is a sequence of entries.                              *)
(***************************************************************************)
\* the domain whose document the snapshot store is exercised with
SnapDomains == {"x.com"}

\* save_domain_json calls started while the count is below MaxMerges
MaxMerges == 3

Absent == [exists |-> FALSE]

Unparseable == [exists |-> TRUE, text |-> None]

FileOf(doc) == [exists |-> TRUE, text |-> Some(doc)]

\* sum(xs) of a list of floats: 0 + xs[1] + xs[2] + ... from left to right
RECURSIVE SumFloats(_)
SumFloats(xs) ==
    IF xs = <<>> THEN FZero ELSE FAdd(SumFloats(SubSeq(xs, 1, Len(xs) - 1)), xs[Len(xs)])

\* sum(xs) of a list of ints
RECURSIVE SumInts(_)
SumInts(xs) == IF xs = <<>> THEN 0 ELSE Head(xs) + SumInts(Tail(xs))

\* [f(x) for x in xs if x is present]: the present values of a list of optionals
RECURSIVE Present(_)
Present(xs) ==
    IF xs = <<>> THEN <<>>
    ELSE (IF Head(xs) = None THEN <<>> ELSE <<Head(xs)[1]>>) \o Present(Tail(xs))

\* the number of entries of a list that satisfy a flag
RECURSIVE CountTrue(_)
CountTrue(bs) ==
    IF bs = <<>> THEN 0 ELSE (IF Head(bs) THEN 1 ELSE 0) + CountTrue(Tail(bs))

\* (mutant) total_accounts counts only the accounts that report a
\* delivered_count
AggregatedTotalOfDelivered(accounts) ==
    LET datas == [i \in 1..Len(accounts) |-> accounts[i].data]
    IN  [average_delivered |-> FZero,
         average_complaint_rate |-> FZero,
         verified_accounts |->
             CountTrue([i \in 1..Len(datas) |-> Get(datas[i], "verified", FALSE)]),
         accounts_with_data |->
             CountTrue([i \in 1..Len(datas) |-> Get(datas[i], "has_data", TRUE)]),
         total_accounts |->
             Len(Present([i \in 1..Len(datas) |->
                             Get(datas[i], "delivered_count", None)]))]

\* (mutant) an account without a metric counts as zero in its average
AggregatedMissingAsZero(accounts) ==
    LET datas            == [i \in 1..Len(accounts) |-> accounts[i].data]
        delivered_counts == Present([i \in 1..Len(datas) |->
                                        Get(datas[i], "delivered_count", None)])
        complaint_rates  == Present([i \in 1..Len(datas) |->
                                        Get(datas[i], "complaint_rate", None)])
    IN  [average_delivered |->
             FDivNat(NatToFloat(SumInts(delivered_counts)), Len(accounts)),
         average_complaint_rate |->
             FDivNat(SumFloats(complaint_rates), Len(accounts)),
         verified_accounts |->
             CountTrue([i \in 1..Len(datas) |-> Get(datas[i], "verified", FALSE)]),
         accounts_with_data |->
             CountTrue([i \in 1..Len(datas) |-> Get(datas[i], "has_data", TRUE)]),
         total_accounts |-> Len(accounts)]

\* FileManager.calculate_aggregated_metrics: the value of
\* domain_data['aggregated_metrics'] for the 'accounts' dict
calculate_aggregated_metrics(accounts) ==
    LET datas            == [i \in 1..Len(accounts) |-> accounts[i].data]
        delivered_counts == Present([i \in 1..Len(datas) |->
                                        Get(datas[i], "delivered_count", None)])
        complaint_rates  == Present([i \in 1..Len(datas) |->
                                        Get(datas[i], "complaint_rate", None)])
    IN  [average_delivered |->
             IF delivered_counts # <<>>
             THEN FDivNat(NatToFloat(SumInts(delivered_counts)), Len(delivered_counts))
             ELSE FZero,
         average_complaint_rate |->
             IF complaint_rates # <<>>
             THEN FDivNat(SumFloats(complaint_rates), Len(complaint_rates))
             ELSE FZero,
         verified_accounts |->
             CountTrue([i \in 1..Len(datas) |-> Get(datas[i], "verified", FALSE)]),
         accounts_with_data |->
             CountTrue([i \in 1..Len(datas) |-> Get(datas[i], "has_data", TRUE)]),
         total_accounts |-> Len(accounts)]

\* existing_data['accounts'][account_email] = entry: an existing key keeps its
\* place, a new key goes last
SetEntry(accounts, entry) ==
    IF \E i \in 1..Len(accounts) : accounts[i].email = entry.email
    THEN [i \in 1..Len(accounts) |->
             IF accounts[i].email = entry.email THEN entry ELSE accounts[i]]
    ELSE Append(accounts, entry)

\* existing_data as read from the file: {} when the file is absent or does
\* not parse (the except clause)
LoadExisting(file) ==
    IF file.exists /\ file.text # None THEN file.text[1] ELSE <<>>

\* (mutant) the document is written with the entry of the merging account and
\* no other
UpdatedDocumentOwnEntryOnly(existing_data, domain, stats, account_email, t) ==
    LET accounts == <<[email |-> account_email, last_updated |-> t,
                       data |-> stats]>>
    IN  [domain             |-> Get(existing_data, "domain", domain),
         accounts           |-> accounts,
         last_updated       |-> t,
         latest_data        |-> stats,
         total_accounts     |-> Len(accounts),
         aggregated_metrics |-> calculate_aggregated_metrics(accounts)]

\* (mutant) the metrics are computed before the account's entry is set
UpdatedDocumentStaleMetrics(existing_data, domain, stats, account_email, t) ==
    LET before   == Get(existing_data, "accounts", <<>>)
        accounts == SetEntry(before,
                             [email |-> account_email, last_updated |-> t,
                              data |-> stats])
    IN  [domain             |-> Get(existing_data, "domain", domain),
         accounts           |-> accounts,
         last_updated       |-> t,
         latest_data        |-> stats,
         total_accounts     |-> Len(accounts),
         aggregated_metrics |-> calculate_aggregated_metrics(before)]

\* lines 651-666 of save_domain_json: existing_data after the update
UpdatedDocument(existing_data, domain, stats, account_email, t) ==
    LET accounts == SetEntry(Get(existing_data, "accounts", <<>>),
                             [email |-> account_email, last_updated |-> t,
                              data |-> stats])
    IN  [domain             |-> Get(existing_data, "domain", domain),
         accounts           |-> accounts,
         last_updated       |-> t,
         latest_data        |-> stats,
         total_accounts     |-> Len(accounts),
         aggregated_metrics |-> calculate_aggregated_metrics(accounts)]

SnapInit ==
    /\ files = [d \in SnapDomains |-> Absent]
    /\ json_pc = [a \in Accounts |-> "idle"]
    /\ json_loc = [a \in Accounts |-> <<>>]
    /\ merged = [d \in SnapDomains |-> {}]
    /\ merges = 0

\* save_domain_json, lines 639-666: read the file and update existing_data
JsonLoad(a, d, shape) ==
    /\ json_pc[a] = "idle"
    /\ merges < MaxMerges
    /\ merges' = merges + 1
    /\ json_pc' = [json_pc EXCEPT ![a] = "loaded"]
    /\ json_loc' = [json_loc EXCEPT ![a] =
           [domain |-> d,
            data   |-> UpdatedDocument(LoadExisting(files[d]), d,
                                       StatsOf(shape, d, now), a, now)]]
    /\ UNCHANGED <<files, merged>>

\* line 668: open(json_path, 'w') truncates the file
JsonOpen(a) ==
    /\ json_pc[a] = "loaded"
    /\ json_pc' = [json_pc EXCEPT ![a] = "opened"]
    /\ files' = [files EXCEPT ![json_loc[a].domain] = Unparseable]
    /\ UNCHANGED <<json_loc, merged, merges>>

\* lines 669-672: json.dump, close, return json_path.  When another writer
\* wrote the file after this one truncated it, this text goes over the
\* other's from offset 0: the file is this document, or (the other text
\* being longer) this document followed by the other's tail
JsonDump(a) ==
    LET d == json_loc[a].domain
    IN  /\ json_pc[a] = "opened"
        /\ json_pc' = [json_pc EXCEPT ![a] = "idle"]
        /\ json_loc' = [json_loc EXCEPT ![a] = <<>>]
        /\ \/ files' = [files EXCEPT ![d] = FileOf(json_loc[a].data)]
           \/ /\ files[d] # Unparseable
              /\ files' = [files EXCEPT ![d] = Unparseable]
        /\ merged' = [merged EXCEPT ![d] = @ \cup {a}]
        /\ UNCHANGED merges

\* FileManager.save_domain_json run alone, from its first line to its last
save_domain_json(d, shape, a) ==
    /\ \A b \in Accounts : json_pc[b] = "idle"
    /\ merges < MaxMerges
    /\ merges' = merges + 1
    /\ files' = [files EXCEPT ![d] =
           FileOf(UpdatedDocument(LoadExisting(files[d]), d,
                                  StatsOf(shape, d, now), a, now))]
    /\ merged' = [merged EXCEPT ![d] = @ \cup {a}]
    /\ UNCHANGED <<json_pc, json_loc>>

(***************************************************************************)
(* PersistentAccountScraper: the thread that runs                          *)
(* start_persistent_scraping on a scraper, one attempt, batch or sleep at  *)
(* a time.  Time passes for a thread only inside time.sleep; the calls it  *)
(* makes take no time.                                                     *)
(***************************************************************************)
\* max_attempts of setup_persistent_driver and its wait_time unit
MaxSetupAttempts == 3

SetupRetrySeconds == 15

\* max_login_attempts of guaranteed_login and its sleeps before a retry
MaxLoginAttempts == 3

NoSigninRetrySeconds == 10

LoginRetrySeconds == 15

\* max_initial_login_attempts and the sleep between two of them
MaxInitialLoginAttempts == 3

InitialLoginRetrySeconds == 30

MaxConsecutiveFailures == 5

\* the hourly wait and the interval at which it looks at is_running
WaitSeconds == 3600

CheckSeconds == 300

\* retry_delay = min(300 * consecutive_failures, 1800)
RetryDelayUnit == 300

MaxRetryDelay == 1800

\* cycle_count stops counting at MaxCycles
MaxCycles == 2

\* the account whose thread is followed step by step
WorkerAccounts == {"a@yahoo.com"}

Browser == Some("browser")

SetupOutcomes == {"ok", "chrome_failed", "script_failed"}

LoginOutcomes == {"ok", "no_signin", "failed"}

BatchResults == {"success", "failure", "exception"}

\* the domain lists a batch may find
DomainLists == SUBSET Domains \ {{}}

Alive(a) == w_pc[a] \in {"setup", "login", "cycle", "hourly"}

\* PersistentAccountScraper.__init__: the fields of new scrapers for the
\* accounts of S
NewScrapers(S) ==
    /\ driver' = [a \in Accounts |-> IF a \in S THEN None ELSE driver[a]]
    /\ logged_in' = [a \in Accounts |-> IF a \in S THEN FALSE ELSE logged_in[a]]
    /\ is_running' = [a \in Accounts |-> IF a \in S THEN TRUE ELSE is_running[a]]
    /\ previous_domains' =
           [a \in Accounts |-> IF a \in S THEN {} ELSE previous_domains[a]]

\* the locals of the threads of the accounts of S, which stand at pc
ThreadsAt(S, pc) ==
    /\ w_pc' = [a \in Accounts |-> IF a \in S THEN pc ELSE w_pc[a]]
    /\ setup_attempt' = [a \in Accounts |-> IF a \in S THEN 0 ELSE setup_attempt[a]]
    /\ init_attempt' = [a \in Accounts |-> IF a \in S THEN 0 ELSE init_attempt[a]]
    /\ login_attempt' = [a \in Accounts |-> IF a \in S THEN 0 ELSE login_attempt[a]]
    /\ consecutive_failures' =
           [a \in Accounts |-> IF a \in S THEN 0 ELSE consecutive_failures[a]]
    /\ cycle_count' = [a \in Accounts |-> IF a \in S THEN 0 ELSE cycle_count[a]]
    /\ wait_i' = [a \in Accounts |-> IF a \in S THEN 0 ELSE wait_i[a]]
    /\ sleep_left' = [a \in Accounts |-> IF a \in S THEN 0 ELSE sleep_left[a]]
    /\ since_stop' = [a \in Accounts |-> IF a \in S THEN 0 ELSE since_stop[a]]

WorkerInit ==
    /\ driver = [a \in Accounts |-> None]
    /\ logged_in = [a \in Accounts |-> FALSE]
    /\ is_running = [a \in Accounts |-> TRUE]
    /\ previous_domains = [a \in Accounts |-> {}]
    /\ w_pc = [a \in Accounts |-> "new"]
    /\ setup_attempt = [a \in Accounts |-> 0]
    /\ init_attempt = [a \in Accounts |-> 0]
    /\ login_attempt = [a \in Accounts |-> 0]
    /\ consecutive_failures = [a \in Accounts |-> 0]
    /\ cycle_count = [a \in Accounts |-> 0]
    /\ wait_i = [a \in Accounts |-> 0]
    /\ sleep_left = [a \in Accounts |-> 0]
    /\ since_stop = [a \in Accounts |-> 0]

\* threading.Thread(target=scraper.start_persistent_scraping).start() on the
\* scraper of a new manager
ThreadStart(a) ==
    /\ w_pc[a] = "new"
    /\ ThreadsAt({a}, "setup")
    /\ UNCHANGED scraperVars

\* (mutant) setup_persistent_driver sleeping the same 15 seconds after every
\* failed attempt, the last one included
SetupAttemptFixedSleep(a, outcome) ==
    /\ w_pc[a] = "setup"
    /\ sleep_left[a] = 0
    /\ IF outcome = "ok"
       THEN /\ driver' = [driver EXCEPT ![a] = Browser]
            /\ w_pc' = [w_pc EXCEPT ![a] = "login"]
            /\ UNCHANGED <<setup_attempt, sleep_left>>
       ELSE /\ driver' = [driver EXCEPT ![a] = None]
            /\ sleep_left' = [sleep_left EXCEPT ![a] = SetupRetrySeconds]
            /\ IF setup_attempt[a] < MaxSetupAttempts - 1
               THEN /\ setup_attempt' = [setup_attempt EXCEPT ![a] = @ + 1]
                    /\ UNCHANGED w_pc
               ELSE /\ w_pc' = [w_pc EXCEPT ![a] = "exit_setup"]
                    /\ UNCHANGED setup_attempt
    /\ UNCHANGED <<logged_in, is_running, previous_domains, init_attempt,
                   login_attempt, consecutive_failures, cycle_count, wait_i,
                   since_stop>>

\* one attempt of setup_persistent_driver.  After a failed attempt and its
\* sleep the driver is quit and cleared (lines 795-800) before the next one.
\*   chrome_failed: ChromeDriverManager().install() or webdriver.Chrome raises
\*   script_failed: execute_script raises, self.driver being assigned
SetupAttempt(a, outcome) ==
    LET prior  == IF setup_attempt[a] > 0 THEN None ELSE driver[a]
        failed == IF outcome = "chrome_failed" THEN prior ELSE Browser
    IN  /\ w_pc[a] = "setup"
        /\ sleep_left[a] = 0
        /\ IF outcome = "ok"
           THEN /\ driver' = [driver EXCEPT ![a] = Browser]
                /\ w_pc' = [w_pc EXCEPT ![a] = "login"]
                /\ UNCHANGED <<setup_attempt, sleep_left>>
           ELSE IF setup_attempt[a] < MaxSetupAttempts - 1
           THEN /\ driver' = [driver EXCEPT ![a] = failed]
                /\ sleep_left' = [sleep_left EXCEPT ![a] =
                       (setup_attempt[a] + 1) * SetupRetrySeconds]
                /\ setup_attempt' = [setup_attempt EXCEPT ![a] = @ + 1]
                /\ UNCHANGED w_pc
           ELSE \* return False, and start_persistent_scraping returns
                /\ driver' = [driver EXCEPT ![a] = failed]
                /\ w_pc' = [w_pc EXCEPT ![a] = "exit_setup"]
                /\ UNCHANGED <<setup_attempt, sleep_left>>
        /\ UNCHANGED <<logged_in, is_running, previous_domains, init_attempt,
                       login_attempt, consecutive_failures, cycle_count, wait_i,
                       since_stop>>

\* (mutant) the login cap exhausted is a failure counted in the cycle loop
LoginExhaustedCounted(a) ==
    /\ w_pc' = [w_pc EXCEPT ![a] = "cycle"]
    /\ consecutive_failures' = [consecutive_failures EXCEPT ![a] = @ + 1]
    /\ UNCHANGED <<init_attempt, login_attempt, sleep_left>>

\* lines 1366-1368: the last initial login attempt failed
LoginExhausted(a) ==
    /\ w_pc' = [w_pc EXCEPT ![a] = "exit_login"]
    /\ UNCHANGED <<init_attempt, login_attempt, sleep_left, consecutive_failures>>

\* one login_attempt of guaranteed_login, called by the initial login loop
\* of start_persistent_scraping.
\*   ok:        verification passed, or the session was already logged in
\*   no_signin: no sign-in element and not logged in (refresh, sleep 10)
\*   failed:    a field was not found, verification failed, or an exception
LoginAttempt(a, outcome) ==
    /\ w_pc[a] = "login"
    /\ sleep_left[a] = 0
    /\ IF outcome = "ok"
       THEN /\ logged_in' = [logged_in EXCEPT ![a] = TRUE]
            /\ w_pc' = [w_pc EXCEPT ![a] = "cycle"]
            /\ UNCHANGED <<init_attempt, login_attempt, sleep_left,
                           consecutive_failures>>
       ELSE /\ UNCHANGED logged_in
            /\ IF login_attempt[a] < MaxLoginAttempts - 1
               THEN /\ login_attempt' = [login_attempt EXCEPT ![a] = @ + 1]
                    /\ sleep_left' = [sleep_left EXCEPT ![a] =
                           IF outcome = "no_signin" THEN NoSigninRetrySeconds
                           ELSE LoginRetrySeconds]
                    /\ UNCHANGED <<w_pc, init_attempt, consecutive_failures>>
               ELSE IF init_attempt[a] < MaxInitialLoginAttempts - 1
               THEN \* guaranteed_login returned False: sleep, call it again
                    /\ init_attempt' = [init_attempt EXCEPT ![a] = @ + 1]
                    /\ login_attempt' = [login_attempt EXCEPT ![a] = 0]
                    /\ sleep_left' = [sleep_left EXCEPT ![a] =
                           InitialLoginRetrySeconds]
                    /\ UNCHANGED <<w_pc, consecutive_failures>>
               ELSE LoginExhausted(a)
    /\ UNCHANGED <<driver, is_running, previous_domains, setup_attempt,
                   cycle_count, wait_i, since_stop>>

\* self.previous_domains after run_hourly_scrape_enhanced found the domains
\* of the list (the body of the method is not in the source: the set of
\* previously seen entities of the specification)
SeenDomains(previous, domains) == domains

\* (mutant) the delay runs one unit ahead of the counter
RetryDelayOneAhead(failures) ==
    Min(RetryDelayUnit * (failures + 1), MaxRetryDelay)

\* (mutant) the delay is computed from the counter before its increment
RetryDelayBeforeIncrement(failures) ==
    Min(RetryDelayUnit * (failures - 1), MaxRetryDelay)

\* retry_delay, lines 1406 and 1417
RetryDelay(failures) == Min(RetryDelayUnit * failures, MaxRetryDelay)

\* (mutant) a successful batch leaves consecutive_failures as it is
RunHourlyScrapeNoReset(a, result, domains) ==
    LET failures == consecutive_failures[a] + 1
    IN  /\ w_pc[a] = "cycle"
        /\ sleep_left[a] = 0
        /\ is_running[a] /\ consecutive_failures[a] < MaxConsecutiveFailures
        /\ cycle_count' = [cycle_count EXCEPT ![a] =
               IF result = "exception" THEN @ ELSE Min(@ + 1, MaxCycles)]
        /\ IF result = "success"
           THEN /\ UNCHANGED consecutive_failures
                /\ previous_domains' = [previous_domains EXCEPT ![a] =
                       SeenDomains(@, domains)]
                /\ w_pc' = [w_pc EXCEPT ![a] = "hourly"]
                /\ UNCHANGED sleep_left
           ELSE /\ consecutive_failures' =
                       [consecutive_failures EXCEPT ![a] = failures]
                /\ UNCHANGED previous_domains
                /\ IF result = "exception" /\ failures >= MaxConsecutiveFailures
                   THEN /\ w_pc' = [w_pc EXCEPT ![a] = "exit_loop"]
                        /\ UNCHANGED sleep_left
                   ELSE /\ sleep_left' = [sleep_left EXCEPT ![a] =
                               RetryDelay(failures)]
                        /\ UNCHANGED w_pc
        /\ UNCHANGED <<driver, logged_in, is_running, setup_attempt, init_attempt,
                       login_attempt, wait_i, since_stop>>

\* one pass of the cycle loop: run_hourly_scrape_enhanced returns True
\* (having seen the domains of the list), returns False, or raises
RunHourlyScrape(a, result, domains) ==
    LET failures == consecutive_failures[a] + 1
    IN  /\ w_pc[a] = "cycle"
        /\ sleep_left[a] = 0
        /\ is_running[a] /\ consecutive_failures[a] < MaxConsecutiveFailures
        /\ cycle_count' = [cycle_count EXCEPT ![a] =
               IF result = "exception" THEN @ ELSE Min(@ + 1, MaxCycles)]
        /\ IF result = "success"
           THEN /\ consecutive_failures' = [consecutive_failures EXCEPT ![a] = 0]
                /\ previous_domains' = [previous_domains EXCEPT ![a] =
                       SeenDomains(@, domains)]
                /\ w_pc' = [w_pc EXCEPT ![a] = "hourly"]
                /\ UNCHANGED sleep_left
           ELSE /\ consecutive_failures' =
                       [consecutive_failures EXCEPT ![a] = failures]
                /\ UNCHANGED previous_domains
                /\ IF result = "exception" /\ failures >= MaxConsecutiveFailures
                   THEN \* break
                        /\ w_pc' = [w_pc EXCEPT ![a] = "exit_loop"]
                        /\ UNCHANGED sleep_left
                   ELSE /\ sleep_left' = [sleep_left EXCEPT ![a] =
                               RetryDelay(failures)]
                        /\ UNCHANGED w_pc
        /\ UNCHANGED <<driver, logged_in, is_running, setup_attempt, init_attempt,
                       login_attempt, wait_i, since_stop>>

\* (mutant) the cycle loop may end whatever its test says
LoopEndUnguarded(a) ==
    /\ w_pc[a] = "cycle"
    /\ sleep_left[a] = 0
    /\ w_pc' = [w_pc EXCEPT ![a] = "exit_loop"]
    /\ UNCHANGED <<scraperVars, setup_attempt, init_attempt, login_attempt,
                   consecutive_failures, cycle_count, wait_i, sleep_left,
                   since_stop>>

\* the loop test of line 1378 fails: the thread ends
LoopEnd(a) ==
    /\ w_pc[a] = "cycle"
    /\ sleep_left[a] = 0
    /\ ~(is_running[a] /\ consecutive_failures[a] < MaxConsecutiveFailures)
    /\ w_pc' = [w_pc EXCEPT ![a] = "exit_loop"]
    /\ UNCHANGED <<scraperVars, setup_attempt, init_attempt, login_attempt,
                   consecutive_failures, cycle_count, wait_i, sleep_left,
                   since_stop>>

\* one pass of the wait loop, lines 1393-1396
HourlyWait(a) ==
    /\ w_pc[a] = "hourly"
    /\ sleep_left[a] = 0
    /\ IF wait_i[a] < WaitSeconds \div CheckSeconds /\ is_running[a]
       THEN /\ sleep_left' = [sleep_left EXCEPT ![a] = CheckSeconds]
            /\ wait_i' = [wait_i EXCEPT ![a] = @ + 1]
            /\ UNCHANGED w_pc
       ELSE /\ w_pc' = [w_pc EXCEPT ![a] = "cycle"]
            /\ wait_i' = [wait_i EXCEPT ![a] = 0]
            /\ UNCHANGED sleep_left
    /\ UNCHANGED <<scraperVars, setup_attempt, init_attempt, login_attempt,
                   consecutive_failures, cycle_count, since_stop>>

\* time passes in time.sleep: the rest of the sleep, at most CheckSeconds
Elapse(a) ==
    LET d == Min(sleep_left[a], CheckSeconds)
    IN  /\ Alive(a)
        /\ sleep_left[a] > 0
        /\ sleep_left' = [sleep_left EXCEPT ![a] = @ - d]
        /\ since_stop' = [since_stop EXCEPT ![a] =
               IF is_running[a] THEN @ ELSE @ + d]
        /\ UNCHANGED <<scraperVars, w_pc, setup_attempt, init_attempt,
                       login_attempt, consecutive_failures, cycle_count, wait_i>>

\* PersistentAccountScraper.stop_scraping
StopScraping(a) ==
    /\ Alive(a)
    /\ is_running[a]
    /\ is_running' = [is_running EXCEPT ![a] = FALSE]
    /\ UNCHANGED <<driver, logged_in, previous_domains, threadVars>>

(***************************************************************************)
(* The methods that keep the session of a scraper valid, each call taken   *)
(* as one step.  st is the scraper as the call finds it: self.driver,      *)
(* whether its browser is dead, self.logged_in and whether the page shows  *)
(* the dashboard; a call gives the scraper as it leaves it, with the       *)
(* value it returns in ret.                                                *)
(***************************************************************************)
SessInit ==
    /\ browser_dead = [a \in Accounts |-> FALSE]
    /\ session_valid = [a \in Accounts |-> FALSE]
    /\ last_validity = [a \in Accounts |-> [op |-> "none", n |-> 0]]

\* setup_persistent_driver, all attempts, called with self.driver None: a new
\* browser, not logged in; no browser; or the browser of the last attempt,
\* whose execute_script raised
SetupResult(st, outcome) ==
    With([st EXCEPT !.driver = IF outcome = "chrome_failed" THEN None ELSE Browser,
                    !.dead = FALSE,
                    !.valid = FALSE],
         "ret", outcome = "ok")

\* guaranteed_login, all attempts.  ok: an attempt succeeds, which takes a
\* browser that answers
LoginResult(st, ok) ==
    IF ok /\ st.driver # None /\ ~st.dead
    THEN With([st EXCEPT !.logged_in = TRUE, !.valid = TRUE], "ret", TRUE)
    ELSE With(st, "ret", FALSE)

\* check_if_logged_in on the scraper st: find_element and current_url raise
\* on a dead browser, and the method returns False
SessionAuthenticated(st) == st.driver # None /\ ~st.dead /\ st.valid

\* (mutant) ensure_browser_alive leaving self.logged_in as it is
EnsureBrowserAliveKeepingFlag(st, outcome) ==
    IF st.driver = None THEN SetupResult(st, outcome)
    ELSE IF ~st.dead THEN With(st, "ret", TRUE)
    ELSE SetupResult([st EXCEPT !.driver = None], outcome)

\* ensure_browser_alive
ensure_browser_alive(st, outcome) ==
    IF st.driver = None THEN SetupResult(st, outcome)
    ELSE IF ~st.dead THEN With(st, "ret", TRUE)
    ELSE \* lines 1216-1226: quit, clear, sleep, set up again
         SetupResult([st EXCEPT !.driver = None, !.logged_in = FALSE], outcome)

\* ensure_logged_in
ensure_logged_in(st, outcome, ok) ==
    LET alive == ensure_browser_alive(st, outcome)
    IN  IF ~alive.ret THEN alive
        ELSE IF SessionAuthenticated(alive) THEN alive
        ELSE LoginResult(alive, ok)

\* (mutant) safe_refresh_browser reporting success whatever the login gave
SafeRefreshIgnoringLogin(st, outcome, ok) ==
    IF st.driver = None \/ st.dead
    THEN ensure_logged_in(st, outcome, ok)
    ELSE IF SessionAuthenticated(st) THEN With(st, "ret", TRUE)
    ELSE With(LoginResult(st, ok), "ret", TRUE)

\* safe_refresh_browser: current_url or refresh raises on a browser that is
\* dead or None, and the except clause returns ensure_logged_in()
safe_refresh_browser(st, outcome, ok) ==
    IF st.driver = None \/ st.dead
    THEN ensure_logged_in(st, outcome, ok)
    ELSE IF SessionAuthenticated(st) THEN With(st, "ret", TRUE)
    ELSE LoginResult(st, ok)

\* the thread of scraper a, in a batch of its cycle loop, calls one of the
\* methods
ValidityCall(a, op, outcome, ok) ==
    LET st  == [driver |-> driver[a], dead |-> browser_dead[a],
                logged_in |-> logged_in[a], valid |-> session_valid[a]]
        res == IF op = "guaranteed_login" THEN LoginResult(st, ok)
               ELSE IF op = "ensure_browser_alive"
               THEN ensure_browser_alive(st, outcome)
               ELSE IF op = "ensure_logged_in"
               THEN ensure_logged_in(st, outcome, ok)
               ELSE safe_refresh_browser(st, outcome, ok)
    IN  /\ w_pc[a] = "cycle"
        /\ sleep_left[a] = 0
        /\ driver' = [driver EXCEPT ![a] = res.driver]
        /\ browser_dead' = [browser_dead EXCEPT ![a] = res.dead]
        /\ logged_in' = [logged_in EXCEPT ![a] = res.logged_in]
        /\ session_valid' = [session_valid EXCEPT ![a] = res.valid]
        /\ last_validity' = [last_validity EXCEPT ![a] =
               [op |-> op, ret |-> res.ret, n |-> 1 - @.n]]
        /\ UNCHANGED <<is_running, previous_domains, threadVars>>

\* the browser of scraper a crashes, or stops answering
BrowserDies(a) ==
    /\ driver[a] # None
    /\ ~browser_dead[a]
    /\ browser_dead' = [browser_dead EXCEPT ![a] = TRUE]
    /\ UNCHANGED <<session_valid, last_validity, workerVars>>

\* the service ends the session of scraper a
SessionExpires(a) ==
    /\ session_valid[a]
    /\ session_valid' = [session_valid EXCEPT ![a] = FALSE]
    /\ UNCHANGED <<browser_dead, last_validity, workerVars>>

(***************************************************************************)
(* The threads as the supervisor sees them: start_persistent_scraping in   *)
(* its three phases, each with its retries and sleeps taken as one step.   *)
(***************************************************************************)
\* setup_persistent_driver, all attempts: it returns True with a browser
\* open, or False after the last attempt failed
ThreadSetup(a, outcome) ==
    /\ w_pc[a] = "setup"
    /\ driver' = [driver EXCEPT ![a] =
           IF outcome = "chrome_failed" THEN None ELSE Browser]
    /\ w_pc' = [w_pc EXCEPT ![a] = IF outcome = "ok" THEN "login" ELSE "exit_setup"]
    /\ UNCHANGED <<logged_in, is_running, previous_domains, setup_attempt,
                   init_attempt, login_attempt, consecutive_failures, cycle_count,
                   wait_i, sleep_left, since_stop>>

\* the initial login loop, all attempts: a guaranteed_login call returns
\* True, or the last one returns False
ThreadLogin(a, ok) ==
    /\ w_pc[a] = "login"
    /\ logged_in' = [logged_in EXCEPT ![a] = IF ok THEN TRUE ELSE @]
    /\ w_pc' = [w_pc EXCEPT ![a] = IF ok THEN "cycle" ELSE "exit_login"]
    /\ UNCHANGED <<driver, is_running, previous_domains, setup_attempt,
                   init_attempt, login_attempt, consecutive_failures, cycle_count,
                   wait_i, sleep_left, since_stop>>

\* a pass of the cycle loop with a successful batch and its hourly wait
ThreadCycle(a, domains) ==
    /\ w_pc[a] = "cycle"
    /\ is_running[a]
    /\ previous_domains[a] # SeenDomains(previous_domains[a], domains)
    /\ previous_domains' = [previous_domains EXCEPT ![a] = SeenDomains(@, domains)]
    /\ UNCHANGED <<driver, logged_in, is_running, threadVars>>

\* the cycle loop ends: is_running is False, or the batches failed
\* max_consecutive_failures times in a row
ThreadLoopEnd(a) ==
    /\ w_pc[a] = "cycle"
    /\ w_pc' = [w_pc EXCEPT ![a] = "exit_loop"]
    /\ UNCHANGED <<scraperVars, setup_attempt, init_attempt, login_attempt,
                   consecutive_failures, cycle_count, wait_i, sleep_left,
                   since_stop>>

(***************************************************************************)
(* SimultaneousPersistentManager, on the main thread.  monitor_count is    *)
(* local to a call of keep_main_thread_alive: the variable holds one       *)
(* counter per active call, the innermost last.                            *)
(***************************************************************************)
\* the accounts.json files and environments the manager is started with
Configurations ==
    {[file |-> <<[email |-> "a@yahoo.com"],
                 [email |-> "b@yahoo.com", enabled |-> TRUE],
                 [email |-> "c@yahoo.com", enabled |-> FALSE]>>,
      env  |-> None],
     [file |-> <<[email |-> "a@yahoo.com", enabled |-> FALSE],
                 [email |-> "b@yahoo.com"]>>,
      env  |-> Some("c@yahoo.com")],
     [file |-> <<[email |-> "a@yahoo.com", enabled |-> FALSE],
                 [email |-> "b@yahoo.com", enabled |-> FALSE]>>,
      env  |-> Some("c@yahoo.com")],
     [file |-> <<>>, env |-> Some("c@yahoo.com")],
     [file |-> <<>>, env |-> None]}

\* lines 114-126: the entries of the file or, the file having none, the
\* account of the environment
ConfiguredAccounts(file, env) ==
    IF file # <<>> THEN file
    ELSE IF env # None THEN <<[email |-> env[1], enabled |-> TRUE]>>
    ELSE <<>>

\* (mutant) an entry without 'enabled' counts as disabled
LoadAccountsMissingDisabled(file, env) ==
    SelectSeq(ConfiguredAccounts(file, env), LAMBDA acc : Get(acc, "enabled", FALSE))

\* AccountManager.load_accounts: the enabled accounts, in file order
load_accounts(file, env) ==
    SelectSeq(ConfiguredAccounts(file, env), LAMBDA acc : Get(acc, "enabled", TRUE))

\* AccountManager.get_accounts
get_accounts == enabled_accounts

Emails(accs) == [i \in 1..Len(accs) |-> accs[i].email]

AcctInit ==
    /\ accounts_file = <<>>
    /\ env_account = None
    /\ enabled_accounts = <<>>

\* the status block runs on every StatusEvery-th poll
StatusEvery == 15

Range(q) == {q[i] : i \in 1..Len(q)}

Tracked == Range(scrapers)

\* sum(1 for thread in self.threads if thread.is_alive())
AliveThreads == Cardinality({i \in 1..Len(scrapers) : Alive(scrapers[i])})

ProcessAlive == sup_pc \notin {"exited", "stopped", "no_accounts"}

SupInit ==
    /\ sup_pc = "main"
    /\ sup_i = 0
    /\ sup_caller = "none"
    /\ mgr_running = TRUE
    /\ monitor_count = <<>>
    /\ scrapers = <<>>

\* the counter of a call of keep_main_thread_alive that is in its except
\* clause (lines 1522-1525), where its monitor_count is read no more
Handling == -1

\* calls of keep_main_thread_alive nest at most MaxDepth deep
MaxDepth == 2

\* a call in its except clause returns when the call it made returns
RECURSIVE Unwind(_)
Unwind(stack) ==
    IF stack # <<>> /\ stack[Len(stack)] = Handling
    THEN Unwind(SubSeq(stack, 1, Len(stack) - 1))
    ELSE stack

\* the calls left when the innermost call of keep_main_thread_alive returns
Returned(stack) == Unwind(SubSeq(stack, 1, Len(stack) - 1))

\* main, lines 1587-1590: the manager is created, and with it its
\* AccountManager, which loads the accounts
CreateManager ==
    /\ sup_pc = "main"
    /\ \E c \in Configurations :
           /\ accounts_file' = c.file
           /\ env_account' = c.env
           /\ enabled_accounts' = load_accounts(c.file, c.env)
    /\ sup_pc' = "start"
    /\ UNCHANGED <<sup_i, sup_caller, mgr_running, monitor_count, scrapers,
                   workerVars>>

\* (mutant) start_all_accounts_simultaneously without the test of line 1446
StartAllAccountsUnchecked ==
    /\ sup_pc \in {"start", "restart"}
    /\ scrapers' = Emails(get_accounts)
    /\ NewScrapers(Range(Emails(get_accounts)))
    /\ ThreadsAt(Range(Emails(get_accounts)), "new")
    /\ sup_i' = 1
    /\ sup_pc' = "spawn"
    /\ UNCHANGED <<sup_caller, mgr_running, monitor_count>>

\* start_all_accounts_simultaneously, lines 1444-1463, called by main or by
\* restart_all_scrapers after its pause and the clearing of the lists
\* (lines 1531-1533): with no account it prints and returns (to main, which
\* ends, or to line 1503), else it builds a new scraper for every account
StartAllAccounts ==
    /\ sup_pc \in {"start", "restart"}
    /\ IF get_accounts = <<>>
       THEN /\ sup_pc' = IF sup_pc = "start" THEN "no_accounts" ELSE "scan"
            /\ UNCHANGED <<scrapers, workerVars>>
       ELSE /\ scrapers' = (IF sup_pc = "restart" THEN <<>> ELSE scrapers)
                               \o Emails(get_accounts)
            /\ NewScrapers(Range(Emails(get_accounts)))
            /\ ThreadsAt(Range(Emails(get_accounts)), "new")
            /\ sup_pc' = "spawn"
    /\ sup_i' = 1
    /\ UNCHANGED <<sup_caller, mgr_running, monitor_count>>

\* lines 1466-1477: the thread of the next scraper is started
StartThreads ==
    /\ sup_pc = "spawn"
    /\ sup_i <= Len(scrapers)
    /\ ThreadStart(scrapers[sup_i])
    /\ sup_i' = sup_i + 1
    /\ UNCHANGED <<sup_pc, sup_caller, mgr_running, monitor_count, scrapers>>

\* line 1485 and lines 1489-1491: keep_main_thread_alive is entered
EnterMonitor ==
    /\ sup_pc = "spawn"
    /\ sup_i > Len(scrapers)
    /\ monitor_count' = Append(monitor_count, 0)
    /\ sup_pc' = "poll"
    /\ UNCHANGED <<sup_i, sup_caller, mgr_running, scrapers, workerVars>>

\* line 1496
StatusDue(count) == count % StatusEvery = 0

\* (mutant) the status block restarts the fleet whatever the number of
\* threads alive
PollRestartAlways ==
    LET depth == Len(monitor_count)
        count == (monitor_count[depth] + 1) % StatusEvery
    IN  /\ sup_pc = "poll"
        /\ IF ~mgr_running
           THEN /\ monitor_count' = Returned(monitor_count)
                /\ sup_pc' = IF Returned(monitor_count) # <<>> THEN "scan"
                             ELSE "exited"
                /\ sup_i' = 1
           ELSE /\ monitor_count' = [monitor_count EXCEPT ![depth] = count]
                /\ sup_pc' = IF StatusDue(count) THEN "restart_all" ELSE "scan"
                /\ sup_i' = 1
        /\ UNCHANGED <<sup_caller, mgr_running, scrapers, workerVars>>

\* lines 1492-1503: the loop test, the poll sleep, the count and the status
\* block.  With is_running False the call returns: to the call of
\* restart_all_scrapers that led to it (line 1503, on to the scan), or out of
\* main, which ends the process.
Poll ==
    LET depth == Len(monitor_count)
        count == (monitor_count[depth] + 1) % StatusEvery
    IN  /\ sup_pc = "poll"
        /\ IF ~mgr_running
           THEN /\ monitor_count' = Returned(monitor_count)
                /\ sup_pc' = IF Returned(monitor_count) # <<>> THEN "scan"
                             ELSE "exited"
                /\ sup_i' = 1
           ELSE /\ monitor_count' = [monitor_count EXCEPT ![depth] = count]
                /\ sup_pc' = IF StatusDue(count) /\ AliveThreads = 0
                                  /\ Len(scrapers) > 0
                             THEN "restart_all" ELSE "scan"
                /\ sup_i' = 1
        /\ UNCHANGED <<sup_caller, mgr_running, scrapers, workerVars>>

\* lines 1506-1507: the next thread of the scan is looked at
Scan ==
    /\ sup_pc = "scan"
    /\ IF sup_i > Len(scrapers)
       THEN sup_pc' = "poll" /\ UNCHANGED sup_i
       ELSE IF Alive(scrapers[sup_i])
       THEN sup_i' = sup_i + 1 /\ UNCHANGED sup_pc
       ELSE sup_pc' = "cooldown" /\ UNCHANGED sup_i
    /\ UNCHANGED <<sup_caller, mgr_running, monitor_count, scrapers, workerVars>>

\* lines 1509-1510: the cooldown sleep and the second look
Cooldown ==
    /\ sup_pc = "cooldown"
    /\ IF Alive(scrapers[sup_i])
       THEN sup_pc' = "scan" /\ sup_i' = sup_i + 1
       ELSE sup_pc' = "respawn" /\ UNCHANGED sup_i
    /\ UNCHANGED <<sup_caller, mgr_running, monitor_count, scrapers, workerVars>>

\* lines 1512-1515: a new thread with target scraper.start_persistent_scraping,
\* the scraper being the one the dead thread ran on
RespawnThread(a) ==
    /\ ThreadsAt({a}, "setup")
    /\ UNCHANGED scraperVars

\* lines 1511-1517: the replacement is started and tracked at index i
Respawn ==
    /\ sup_pc = "respawn"
    /\ RespawnThread(scrapers[sup_i])
    /\ sup_pc' = "scan"
    /\ sup_i' = sup_i + 1
    /\ UNCHANGED <<sup_caller, mgr_running, monitor_count, scrapers>>

\* stop_all_accounts, lines 1539-1542, called by caller
StopAllAccounts(caller) ==
    /\ mgr_running' = FALSE
    /\ is_running' = [a \in Accounts |-> IF a \in Tracked THEN FALSE ELSE is_running[a]]
    /\ sup_caller' = caller
    /\ sup_pc' = "join"
    /\ sup_i' = 1
    /\ UNCHANGED <<monitor_count, scrapers, driver, logged_in, previous_domains,
                   threadVars>>

\* restart_all_scrapers, line 1530
RestartAllScrapers ==
    /\ sup_pc = "restart_all"
    /\ StopAllAccounts("restart")

\* KeyboardInterrupt on the main thread, lines 1519-1521 and 1605-1607
Interrupt ==
    /\ sup_pc \in {"spawn", "poll", "scan", "cooldown", "respawn"}
    /\ StopAllAccounts("interrupt")

\* lines 1544-1545: thread.join(timeout=60) returns, the thread having ended
\* or the timeout having passed
Join ==
    /\ sup_pc = "join"
    /\ sup_i <= Len(scrapers)
    /\ sup_i' = sup_i + 1
    /\ UNCHANGED <<sup_pc, sup_caller, mgr_running, monitor_count, scrapers,
                   workerVars>>

\* stop_all_accounts returns: to restart_all_scrapers, or to the handler of
\* the interrupt, at whose end the innermost call of keep_main_thread_alive
\* (or main) returns
StopAllReturn ==
    /\ sup_pc = "join"
    /\ sup_i > Len(scrapers)
    /\ IF sup_caller = "restart"
       THEN sup_pc' = "restart" /\ UNCHANGED monitor_count
       ELSE /\ monitor_count' = Returned(monitor_count)
            /\ sup_pc' = IF Returned(monitor_count) # <<>> THEN "scan"
                         ELSE "stopped"
    /\ sup_i' = 1
    /\ UNCHANGED <<sup_caller, mgr_running, scrapers, workerVars>>

\* an unexpected exception is raised inside the try block of the innermost
\* call of keep_main_thread_alive (in the loop, or in restart_all_scrapers and
\* what it calls) and caught by the except clause of line 1522
Fault ==
    LET depth == Len(monitor_count)
    IN  /\ depth >= 1
        /\ depth < MaxDepth
        /\ \/ sup_pc \in {"scan", "cooldown", "respawn", "restart_all", "restart",
                          "spawn"}
           \/ sup_pc = "poll" /\ mgr_running
           \/ sup_pc = "join" /\ sup_caller = "restart"
        /\ monitor_count' = [monitor_count EXCEPT ![depth] = Handling]
        /\ sup_pc' = "except"
        /\ UNCHANGED <<sup_i, sup_caller, mgr_running, scrapers, workerVars>>

\* lines 1524-1525 and 1489-1491: the pause, then keep_main_thread_alive
\* calls itself
HandlerResume ==
    /\ sup_pc = "except"
    /\ monitor_count' = Append(monitor_count, 0)
    /\ sup_pc' = "poll"
    /\ UNCHANGED <<sup_i, sup_caller, mgr_running, scrapers, workerVars>>

(***************************************************************************)
(* One batch of a worker: run_hourly_scrape_enhanced takes the entities    *)
(* one after the other; process_single_domain_enhanced extracts an entity  *)
(* and saves the record (a NoData record included), or fails.              *)
(***************************************************************************)
BatchAccount == "a@yahoo.com"

\* the orders the dashboard may list the entities in
DomainOrders ==
    {q \in UNION {[1..n -> Domains] : n \in 1..Cardinality(Domains)} :
        \A i, j \in 1..Len(q) : i # j => q[i] # q[j]}

\* what the Extractor gives for an entity: a record (NoData included) or Failure
Failure == [failure |-> TRUE]

Extractions == DbShapes \cup {Failure}

BatchInit ==
    /\ batch_pc = "idle"
    /\ batch_domains = <<>>
    /\ batch_i = 0
    /\ batch_log = <<>>

\* run_hourly_scrape_enhanced begins: the entities are enumerated
BatchStart(domains) ==
    /\ batch_pc \in {"idle", "done"}
    /\ batch_pc' = "running"
    /\ batch_domains' = domains
    /\ batch_i' = 1
    /\ batch_log' = <<>>
    /\ UNCHANGED dbVars

\* (mutant) a failure on an entity ends the batch
ProcessSingleDomainAborting(extraction) ==
    /\ batch_pc = "running"
    /\ batch_i <= Len(batch_domains)
    /\ IF extraction = Failure
       THEN /\ batch_log' = Append(batch_log, "failed")
            /\ batch_pc' = "done"
            /\ UNCHANGED dbVars
       ELSE /\ save_domain_stats(extraction, batch_domains[batch_i], BatchAccount,
                                 FALSE)
            /\ batch_log' = Append(batch_log, "saved")
            /\ UNCHANGED batch_pc
    /\ batch_i' = batch_i + 1
    /\ UNCHANGED batch_domains

\* process_single_domain_enhanced on the next entity, and the step of the
\* loop of run_hourly_scrape_enhanced: a failure is logged and the batch
\* goes on
ProcessSingleDomain(extraction) ==
    /\ batch_pc = "running"
    /\ batch_i <= Len(batch_domains)
    /\ IF extraction = Failure
       THEN /\ batch_log' = Append(batch_log, "failed")
            /\ UNCHANGED dbVars
       ELSE /\ save_domain_stats(extraction, batch_domains[batch_i], BatchAccount,
                                 FALSE)
            /\ batch_log' = Append(batch_log, "saved")
    /\ batch_i' = batch_i + 1
    /\ UNCHANGED <<batch_pc, batch_domains>>

\* the last entity was taken: run_hourly_scrape_enhanced returns
BatchEnd ==
    /\ batch_pc = "running"
    /\ batch_i > Len(batch_domains)
    /\ batch_pc' = "done"
    /\ UNCHANGED <<batch_domains, batch_i, batch_log, dbVars>>

(***************************************************************************)
(* guaranteed_login, one attempt at a step.                                *)
(***************************************************************************)
\* an attempt that ends in one of these makes guaranteed_login return True
Successes == {"already_logged_in", "success"}

\* check_if_logged_in: an indicator is displayed, or the URL is one of the
\* dashboard
check_if_logged_in(page) == page.indicator \/ page.url

\* (mutant) the verification asks for all three signals together
VerificationOfAllSignals(page) ==
    check_if_logged_in(page) /\ page.url /\ page.content

\* verification_passed, lines 1156-1171
verification_passed(page) ==
    check_if_logged_in(page) \/ page.url \/ page.content

\* what one attempt ends in.
\*   stage:  how far the attempt gets, the first element it does not find,
\*           or "verify" when it finds them all and submits the form
\*   page:   what it finds on the page it looks at
\*   raised: a call of the attempt raises and the handler of line 1195
\*           takes it
AttemptEnd(stage, page, raised) ==
    IF raised THEN "exception"
    ELSE IF stage = "signin"
    THEN IF check_if_logged_in(page) THEN "already_logged_in"
         ELSE "signin_not_found"
    ELSE IF stage = "username" THEN "username_not_found"
    ELSE IF stage = "next" THEN "next_not_found"
    ELSE IF stage = "password"
    THEN IF check_if_logged_in(page) THEN "already_logged_in"
         ELSE "password_not_found"
    ELSE IF verification_passed(page) THEN "success"
    ELSE "verification_failed"

\* (mutant) no backoff between the attempts
LoginBackoffNone(end) == 0

\* the sleep before the next attempt: lines 932, 999, 1051, 1104, 1191, 1199
LoginBackoff(end) ==
    IF end = "signin_not_found" THEN NoSigninRetrySeconds ELSE LoginRetrySeconds

LoginInit ==
    /\ gl_pc = "idle"
    /\ gl_attempt = 0
    /\ gl_ended = <<>>
    /\ gl_page = [indicator |-> FALSE, url |-> FALSE, content |-> FALSE]
    /\ gl_sleep = 0
    /\ gl_return = None
    /\ gl_logged_in = FALSE

\* guaranteed_login is called, the first time or again (lines 1359, 862-866)
GuaranteedLogin ==
    /\ gl_pc \in {"idle", "returned"}
    /\ gl_pc' = "attempt"
    /\ gl_attempt' = 0
    /\ gl_ended' = <<>>
    /\ gl_sleep' = 0
    /\ gl_return' = None
    /\ UNCHANGED <<gl_page, gl_logged_in>>

\* one login_attempt, lines 866-1201
GuaranteedLoginAttempt(stage, page, raised) ==
    LET end == AttemptEnd(stage, page, raised)
    IN  /\ gl_pc = "attempt"
        /\ gl_ended' = Append(gl_ended, end)
        /\ gl_page' = page
        /\ IF end \in Successes
           THEN /\ gl_logged_in' = TRUE
                /\ gl_return' = Some(TRUE)
                /\ gl_pc' = "returned"
                /\ UNCHANGED <<gl_attempt, gl_sleep>>
           ELSE IF gl_attempt < MaxLoginAttempts - 1
           THEN /\ gl_sleep' = LoginBackoff(end)
                /\ gl_attempt' = gl_attempt + 1
                /\ gl_pc' = "sleep"
                /\ UNCHANGED <<gl_return, gl_logged_in>>
           ELSE /\ gl_return' = Some(FALSE)
                /\ gl_pc' = "returned"
                /\ UNCHANGED <<gl_attempt, gl_sleep, gl_logged_in>>

\* the backoff is over: continue with the next login_attempt
LoginBackoffOver ==
    /\ gl_pc = "sleep"
    /\ gl_pc' = "attempt"
    /\ gl_sleep' = 0
    /\ UNCHANGED <<gl_attempt, gl_ended, gl_page, gl_return, gl_logged_in>>

Init == DbInit /\ SnapInit /\ WorkerInit /\ SupInit /\ AcctInit /\ BatchInit
        /\ LoginInit /\ AuditInit /\ SessInit

\* writes to the persistence layer, the server going down and coming back
NextDb ==
    \/ SaveDomainStats /\ UNCHANGED <<snapVars, workerVars, supVars, acctVars, batchVars, loginVars, auditVars, sessVars>>
    \/ Tick /\ UNCHANGED <<snapVars, workerVars, supVars, acctVars, batchVars, loginVars, auditVars, sessVars>>
    \/ DbDown /\ UNCHANGED <<snapVars, workerVars, supVars, acctVars, batchVars, loginVars, auditVars, sessVars>>
    \/ DbUp /\ UNCHANGED <<snapVars, workerVars, supVars, acctVars, batchVars, loginVars, auditVars, sessVars>>

SpecDb == Init /\ [][NextDb]_vars

\* writes to the persistence layer and reads of the latest rows
NextQuery ==
    \/ SaveDomainStats /\ UNCHANGED <<snapVars, workerVars, supVars, acctVars, batchVars, loginVars, auditVars, sessVars>>
    \/ GetAllDomainsStats /\ UNCHANGED <<snapVars, workerVars, supVars, acctVars, batchVars, loginVars, auditVars, sessVars>>
    \/ Tick /\ UNCHANGED <<snapVars, workerVars, supVars, acctVars, batchVars, loginVars, auditVars, sessVars>>

SpecQuery == Init /\ [][NextQuery]_vars

\* writes and reads of the persistence layer while the server goes down and
\* comes back
NextOutage ==
    \/ SaveDomainStats /\ UNCHANGED <<snapVars, workerVars, supVars, acctVars, batchVars, loginVars, auditVars, sessVars>>
    \/ GetLatestDomainStats /\ UNCHANGED <<snapVars, workerVars, supVars, acctVars, batchVars, loginVars, auditVars, sessVars>>
    \/ GetAllDomainsStats /\ UNCHANGED <<snapVars, workerVars, supVars, acctVars, batchVars, loginVars, auditVars, sessVars>>
    \/ DbDown /\ UNCHANGED <<snapVars, workerVars, supVars, acctVars, batchVars, loginVars, auditVars, sessVars>>
    \/ DbUp /\ UNCHANGED <<snapVars, workerVars, supVars, acctVars, batchVars, loginVars, auditVars, sessVars>>

SpecOutage == Init /\ [][NextOutage]_vars

\* the persistence layer with its audit tables, over the runs of the process
NextAudit ==
    \/ \E shape \in DbShapes, fault \in BOOLEAN :
           save_domain_stats(shape, "x.com", "a@yahoo.com", fault)
               /\ UNCHANGED <<snapVars, workerVars, supVars, acctVars, batchVars, loginVars, auditVars, sessVars>>
    \/ \E fault \in BOOLEAN :
           get_latest_domain_stats("x.com", Some("a@yahoo.com"), fault)
               /\ UNCHANGED <<snapVars, workerVars, supVars, acctVars, batchVars, loginVars, auditVars, sessVars>>
    \/ \E a \in DbAccounts, fault \in BOOLEAN :
           start_scraping_session(2, a, fault)
               /\ UNCHANGED <<snapVars, workerVars, supVars, acctVars, batchVars, loginVars, sessVars>>
    \/ \E session_id \in 1..MaxSessions, domains_processed \in {2},
          status \in {"running", "completed", "failed"}, fault \in BOOLEAN :
           update_scraping_session(session_id, domains_processed, status, fault)
               /\ UNCHANGED <<snapVars, workerVars, supVars, acctVars, batchVars, loginVars, sessVars>>
    \/ \E fault \in BOOLEAN :
           init_database(fault)
               /\ UNCHANGED <<snapVars, workerVars, supVars, acctVars, batchVars, loginVars, sessVars>>
    \/ DbDown /\ UNCHANGED <<snapVars, workerVars, supVars, acctVars, batchVars, loginVars, auditVars, sessVars>>
    \/ DbUp /\ UNCHANGED <<snapVars, workerVars, supVars, acctVars, batchVars, loginVars, auditVars, sessVars>>

SpecAudit == Init /\ [][NextAudit]_vars

\* the batches of one worker
NextBatch ==
    \/ \E domains \in DomainOrders :
           BatchStart(domains) /\ UNCHANGED <<snapVars, workerVars, supVars, acctVars, loginVars, auditVars, sessVars>>
    \/ \E extraction \in Extractions :
           ProcessSingleDomain(extraction)
               /\ UNCHANGED <<snapVars, workerVars, supVars, acctVars, loginVars, auditVars, sessVars>>
    \/ BatchEnd /\ UNCHANGED <<snapVars, workerVars, supVars, acctVars, loginVars, auditVars, sessVars>>
    \/ Tick /\ UNCHANGED <<snapVars, workerVars, supVars, acctVars, batchVars, loginVars, auditVars, sessVars>>

SpecBatch == Init /\ [][NextBatch]_vars

\* the calls of guaranteed_login of one worker
NextLogin ==
    \/ GuaranteedLogin
           /\ UNCHANGED <<dbVars, snapVars, workerVars, supVars, acctVars, batchVars, auditVars, sessVars>>
    \/ \E stage \in {"signin", "username", "next", "password", "verify"},
          page \in [indicator : BOOLEAN, url : BOOLEAN, content : BOOLEAN],
          raised \in BOOLEAN :
           GuaranteedLoginAttempt(stage, page, raised)
               /\ UNCHANGED <<dbVars, snapVars, workerVars, supVars, acctVars, batchVars, auditVars, sessVars>>
    \/ LoginBackoffOver
           /\ UNCHANGED <<dbVars, snapVars, workerVars, supVars, acctVars, batchVars, auditVars, sessVars>>

SpecLogin == Init /\ [][NextLogin]_vars

\* merges into the snapshot store, one at a time
NextMerge ==
    \E d \in SnapDomains, shape \in StatsShapes, a \in Accounts :
        save_domain_json(d, shape, a) /\ UNCHANGED <<dbVars, workerVars, supVars, acctVars, batchVars, loginVars, auditVars, sessVars>>

SpecMerge == Init /\ [][NextMerge]_vars

\* merges into the snapshot store by the workers' threads, interleaved
NextSnap ==
    \/ \E a \in Accounts, d \in SnapDomains, shape \in StatsShapes :
           JsonLoad(a, d, shape) /\ UNCHANGED <<dbVars, workerVars, supVars, acctVars, batchVars, loginVars, auditVars, sessVars>>
    \/ \E a \in Accounts : JsonOpen(a) /\ UNCHANGED <<dbVars, workerVars, supVars, acctVars, batchVars, loginVars, auditVars, sessVars>>
    \/ \E a \in Accounts : JsonDump(a) /\ UNCHANGED <<dbVars, workerVars, supVars, acctVars, batchVars, loginVars, auditVars, sessVars>>

SpecSnap == Init /\ [][NextSnap]_vars

\* one worker thread, step by step, and the clock
NextWorker ==
    \E a \in WorkerAccounts :
        \/ ThreadStart(a) /\ UNCHANGED <<dbVars, snapVars, supVars, acctVars, batchVars, loginVars, auditVars, sessVars>>
        \/ \E outcome \in SetupOutcomes :
               SetupAttempt(a, outcome) /\ UNCHANGED <<dbVars, snapVars, supVars, acctVars, batchVars, loginVars, auditVars, sessVars>>
        \/ \E outcome \in LoginOutcomes :
               LoginAttempt(a, outcome) /\ UNCHANGED <<dbVars, snapVars, supVars, acctVars, batchVars, loginVars, auditVars, sessVars>>
        \/ \E result \in BatchResults, domains \in DomainLists :
               RunHourlyScrape(a, result, domains)
                   /\ UNCHANGED <<dbVars, snapVars, supVars, acctVars, batchVars, loginVars, auditVars, sessVars>>
        \/ LoopEnd(a) /\ UNCHANGED <<dbVars, snapVars, supVars, acctVars, batchVars, loginVars, auditVars, sessVars>>
        \/ HourlyWait(a) /\ UNCHANGED <<dbVars, snapVars, supVars, acctVars, batchVars, loginVars, auditVars, sessVars>>
        \/ Elapse(a) /\ UNCHANGED <<dbVars, snapVars, supVars, acctVars, batchVars, loginVars, auditVars, sessVars>>
        \/ StopScraping(a) /\ UNCHANGED <<dbVars, snapVars, supVars, acctVars, batchVars, loginVars, auditVars, sessVars>>

SpecWorker == Init /\ [][NextWorker]_vars

\* one worker thread, its browser and the session of its browser
NextSession ==
    \E a \in WorkerAccounts :
        \/ ThreadStart(a)
               /\ UNCHANGED <<dbVars, snapVars, supVars, acctVars, batchVars, loginVars, auditVars, sessVars>>
        \/ \E outcome \in SetupOutcomes :
               /\ ThreadSetup(a, outcome)
               /\ browser_dead' = [browser_dead EXCEPT ![a] = FALSE]
               /\ session_valid' = [session_valid EXCEPT ![a] = FALSE]
               /\ UNCHANGED <<last_validity, dbVars, snapVars, supVars, acctVars, batchVars, loginVars, auditVars>>
        \/ \E ok \in BOOLEAN :
               /\ ThreadLogin(a, ok)
               /\ ok => ~browser_dead[a]
               /\ session_valid' = [session_valid EXCEPT ![a] = ok]
               /\ last_validity' = [last_validity EXCEPT ![a] =
                      [op |-> "guaranteed_login", ret |-> ok, n |-> 1 - @.n]]
               /\ UNCHANGED <<browser_dead, dbVars, snapVars, supVars, acctVars, batchVars, loginVars, auditVars>>
        \/ \E result \in BatchResults, domains \in DomainLists :
               RunHourlyScrape(a, result, domains)
                   /\ UNCHANGED <<dbVars, snapVars, supVars, acctVars, batchVars, loginVars, auditVars, sessVars>>
        \/ LoopEnd(a) /\ UNCHANGED <<dbVars, snapVars, supVars, acctVars, batchVars, loginVars, auditVars, sessVars>>
        \/ HourlyWait(a) /\ UNCHANGED <<dbVars, snapVars, supVars, acctVars, batchVars, loginVars, auditVars, sessVars>>
        \/ Elapse(a) /\ UNCHANGED <<dbVars, snapVars, supVars, acctVars, batchVars, loginVars, auditVars, sessVars>>
        \/ \E op \in {"guaranteed_login", "ensure_browser_alive",
                       "ensure_logged_in", "safe_refresh_browser"},
              outcome \in SetupOutcomes, ok \in BOOLEAN :
               ValidityCall(a, op, outcome, ok)
                   /\ UNCHANGED <<dbVars, snapVars, supVars, acctVars, batchVars, loginVars, auditVars>>
        \/ BrowserDies(a)
               /\ UNCHANGED <<dbVars, snapVars, supVars, acctVars, batchVars, loginVars, auditVars>>
        \/ SessionExpires(a)
               /\ UNCHANGED <<dbVars, snapVars, supVars, acctVars, batchVars, loginVars, auditVars>>
        \/ /\ w_pc[a] = "cycle"
           /\ sleep_left[a] = 0
           /\ \E shape \in {s \in DbShapes : s.delivered_count = Some(100)} :
                  save_domain_stats(shape, "x.com", a, FALSE)
           /\ UNCHANGED <<snapVars, workerVars, supVars, acctVars, batchVars, loginVars, auditVars, sessVars>>

SpecSession == Init /\ [][NextSession]_vars

\* the supervisor and the threads of its scrapers
NextFleet ==
    \/ CreateManager /\ UNCHANGED <<dbVars, snapVars, batchVars, loginVars, auditVars, sessVars>>
    \/ StartAllAccounts /\ UNCHANGED <<dbVars, snapVars, acctVars, batchVars, loginVars, auditVars, sessVars>>
    \/ StartThreads /\ UNCHANGED <<dbVars, snapVars, acctVars, batchVars, loginVars, auditVars, sessVars>>
    \/ EnterMonitor /\ UNCHANGED <<dbVars, snapVars, acctVars, batchVars, loginVars, auditVars, sessVars>>
    \/ Poll /\ UNCHANGED <<dbVars, snapVars, acctVars, batchVars, loginVars, auditVars, sessVars>>
    \/ Scan /\ UNCHANGED <<dbVars, snapVars, acctVars, batchVars, loginVars, auditVars, sessVars>>
    \/ Cooldown /\ UNCHANGED <<dbVars, snapVars, acctVars, batchVars, loginVars, auditVars, sessVars>>
    \/ Respawn /\ UNCHANGED <<dbVars, snapVars, acctVars, batchVars, loginVars, auditVars, sessVars>>
    \/ RestartAllScrapers /\ UNCHANGED <<dbVars, snapVars, acctVars, batchVars, loginVars, auditVars, sessVars>>
    \/ Interrupt /\ UNCHANGED <<dbVars, snapVars, acctVars, batchVars, loginVars, auditVars, sessVars>>
    \/ Join /\ UNCHANGED <<dbVars, snapVars, acctVars, batchVars, loginVars, auditVars, sessVars>>
    \/ StopAllReturn /\ UNCHANGED <<dbVars, snapVars, acctVars, batchVars, loginVars, auditVars, sessVars>>
    \/ Fault /\ UNCHANGED <<dbVars, snapVars, acctVars, batchVars, loginVars, auditVars, sessVars>>
    \/ HandlerResume /\ UNCHANGED <<dbVars, snapVars, acctVars, batchVars, loginVars, auditVars, sessVars>>
    \/ \E a \in Tracked :
           /\ ProcessAlive
           /\ \/ \E outcome \in SetupOutcomes : ThreadSetup(a, outcome)
              \/ \E ok \in BOOLEAN : ThreadLogin(a, ok)
              \/ \E domains \in DomainLists : ThreadCycle(a, domains)
              \/ ThreadLoopEnd(a)
           /\ UNCHANGED <<dbVars, snapVars, supVars, acctVars, batchVars, loginVars, auditVars, sessVars>>

SpecFleet == Init /\ [][NextFleet]_vars

\* a step of the main thread, no interrupt and no exception being raised
SupervisorStep ==
    \/ CreateManager /\ UNCHANGED <<dbVars, snapVars, batchVars, loginVars, auditVars, sessVars>>
    \/ /\ \/ StartAllAccounts \/ StartThreads \/ EnterMonitor \/ Poll \/ Scan
          \/ Cooldown \/ Respawn \/ RestartAllScrapers \/ Join
          \/ StopAllReturn
       /\ UNCHANGED <<dbVars, snapVars, acctVars, batchVars, loginVars, auditVars, sessVars>>

\* a step of the thread of a tracked scraper
WorkerStep ==
    \E a \in Tracked :
        /\ ProcessAlive
        /\ \/ \E outcome \in SetupOutcomes : ThreadSetup(a, outcome)
           \/ \E ok \in BOOLEAN : ThreadLogin(a, ok)
           \/ \E domains \in DomainLists : ThreadCycle(a, domains)
           \/ ThreadLoopEnd(a)
        /\ UNCHANGED <<dbVars, snapVars, supVars, acctVars, batchVars, loginVars, auditVars, sessVars>>

NextFleetLive == SupervisorStep \/ WorkerStep

\* the process has ended and is started again: main initialises the database
\* of a new DatabaseManager, everything else being as at the start
ProcessRestart(fault) ==
    /\ ~ProcessAlive
    /\ init_database(fault)
    /\ sup_pc' = "main"
    /\ sup_i' = 0
    /\ sup_caller' = "none"
    /\ mgr_running' = TRUE
    /\ monitor_count' = <<>>
    /\ scrapers' = <<>>
    /\ accounts_file' = <<>>
    /\ env_account' = None
    /\ enabled_accounts' = <<>>
    /\ NewScrapers(Accounts)
    /\ ThreadsAt(Accounts, "new")

\* the runs of the process one after the other: the supervisor, its threads
\* and the rows a thread saves in its cycle loop
NextProcess ==
    \/ NextFleetLive
    \/ /\ ProcessAlive
       /\ "a@yahoo.com" \in Tracked
       /\ w_pc["a@yahoo.com"] = "cycle"
       /\ \E shape \in {s \in DbShapes : s.delivered_count = Some(100)} :
              save_domain_stats(shape, "x.com", "a@yahoo.com", FALSE)
       /\ UNCHANGED <<snapVars, workerVars, supVars, acctVars, batchVars, loginVars, auditVars, sessVars>>
    \/ \E fault \in BOOLEAN :
           ProcessRestart(fault) /\ UNCHANGED <<snapVars, batchVars, loginVars, sessVars>>

SpecProcess == Init /\ [][NextProcess]_vars

\* the supervisor and its threads with no interrupt and no exception; the
\* main thread is never stopped for ever where it can go on: its sleeps and
\* joins end
SpecFleetLive == Init /\ [][NextFleetLive]_vars /\ WF_vars(SupervisorStep)

C3_OneLatestRowPerDomain ==
    (last_call.op = "get_all" /\ last_call.reachable) =>
        LET ret == last_call.ret
        IN  /\ \A i, j \in 1..Len(ret) :
                   i # j => ret[i].domain_name # ret[j].domain_name
            /\ \A i \in 1..Len(ret) :
                   /\ ret[i] \in Eligible(domain_stats, last_call.account_email)
                   /\ \A r \in Eligible(domain_stats, last_call.account_email) :
                          r.domain_name = ret[i].domain_name =>
                              r.timestamp <= ret[i].timestamp

(***************************************************************************)
(* C2: concurrent merges into one domain's document lose no update: when   *)
(* no save_domain_json call is in flight, the stored document holds the    *)
(* contribution of every account that completed a merge into it.           *)
(***************************************************************************)
HasDocument(d) == files[d].exists /\ files[d].text # None

Document(d) == files[d].text[1]

Contributors(doc) == {doc.accounts[i].email : i \in 1..Len(doc.accounts)}

C2_NoLostUpdate ==
    \A d \in SnapDomains :
        (\A a \in Accounts : json_pc[a] = "idle") =>
            \A a \in merged[d] : HasDocument(d) /\ a \in Contributors(Document(d))

(***************************************************************************)
(* C9: the aggregated_metrics of a document depend only on the set of the  *)
(* latest contribution of each account, not on the order the accounts      *)
(* merged in: they equal the metrics computed over the same contributions  *)
(* taken in one fixed order of the accounts.                               *)
(***************************************************************************)
AccountOrder == <<"a@yahoo.com", "b@yahoo.com", "c@yahoo.com">>

\* the entries of an 'accounts' dict in the order of AccountOrder
InAccountOrder(accounts) ==
    LET emails == SelectSeq(AccountOrder,
                            LAMBDA e : \E i \in 1..Len(accounts) : accounts[i].email = e)
    IN  [k \in 1..Len(emails) |->
            accounts[CHOOSE i \in 1..Len(accounts) : accounts[i].email = emails[k]]]

C9_MergeOrderIndependent ==
    \A d \in SnapDomains :
        HasDocument(d) =>
            Document(d).aggregated_metrics
                = calculate_aggregated_metrics(InAccountOrder(Document(d).accounts))

(***************************************************************************)
(* C10: every stored document has at least one contribution, its           *)
(* total_accounts (top level and aggregated) is the number of              *)
(* contributions, and verified_accounts and accounts_with_data do not      *)
(* exceed it.                                                              *)
(***************************************************************************)
C10_CountsConsistent ==
    \A d \in SnapDomains :
        HasDocument(d) =>
            LET doc == Document(d)
                agg == doc.aggregated_metrics
            IN  /\ Len(doc.accounts) >= 1
                /\ Cardinality(Contributors(doc)) = Len(doc.accounts)
                /\ doc.total_accounts = Len(doc.accounts)
                /\ agg.total_accounts = Len(doc.accounts)
                /\ agg.verified_accounts <= agg.total_accounts
                /\ agg.accounts_with_data <= agg.total_accounts

\* three accounts contributed, not all of them verified or with data
C10_Witness ==
    \E d \in SnapDomains :
        /\ HasDocument(d)
        /\ Document(d).aggregated_metrics.total_accounts = 3
        /\ Document(d).aggregated_metrics.verified_accounts = 2
        /\ Document(d).aggregated_metrics.accounts_with_data = 2

(***************************************************************************)
(* C4: a thread whose scraper was told to stop (stop_scraping) while it    *)
(* was in a sleep ends within one checking interval (CheckSeconds): no     *)
(* thread is still alive more than CheckSeconds after the request.         *)
(***************************************************************************)
C4_StopWithinOneTick ==
    \A a \in Accounts :
        (Alive(a) /\ ~is_running[a]) => since_stop[a] <= CheckSeconds

C6_AllDeadFullRestart ==
    sup_pc = "respawn" => AliveThreads > 0

(***************************************************************************)
(* C7: unless the main thread was interrupted, the supervisor never leaves *)
(* its monitoring loop: the process does not end.                          *)
(***************************************************************************)
C7_SupervisorNeverStops ==
    sup_caller # "interrupt" => sup_pc # "exited"

(***************************************************************************)
(* C8: the replacement thread the supervisor starts for a dead thread runs *)
(* on fresh session state: no browser, not logged in, is_running set, no   *)
(* previously seen domains.                                                *)
(***************************************************************************)
C8_ReplacementFresh ==
    [][(sup_pc = "respawn" /\ sup_pc' = "scan") =>
          LET a == scrapers[sup_i]
          IN  /\ w_pc'[a] = "setup"
              /\ driver'[a] = None
              /\ ~logged_in'[a]
              /\ is_running'[a]
              /\ previous_domains'[a] = {}]_vars

(***************************************************************************)
(* C11: under every interleaving of the merges, the aggregated_metrics of  *)
(* every stored document are the aggregation of the contributions that     *)
(* same document holds, and its total_accounts is their number.            *)
(***************************************************************************)
C11_MetricsOfOwnContributions ==
    \A d \in SnapDomains :
        HasDocument(d) =>
            /\ Document(d).aggregated_metrics
                   = calculate_aggregated_metrics(Document(d).accounts)
            /\ Document(d).total_accounts = Len(Document(d).accounts)

\* a document written over another account's merge: three accounts completed
\* a merge, the document holds two contributions and their metrics
C11_Witness ==
    \E d \in SnapDomains :
        /\ HasDocument(d)
        /\ \A a \in Accounts : json_pc[a] = "idle"
        /\ Cardinality(merged[d]) = 3
        /\ Len(Document(d).accounts) = 2
        /\ Document(d).aggregated_metrics.total_accounts = 2

(***************************************************************************)
(* C12: the averages are taken over the accounts that have the metric and  *)
(* over no other: with the delivered counts present summing to a multiple  *)
(* of their number, average_delivered is the quotient (100 and 200 give    *)
(* 150, whatever accounts without delivered_count are in the document);   *)
(* with one complaint rate present, or two equal ones,                     *)
(* average_complaint_rate is that rate; with none present an average is 0. *)
(***************************************************************************)
PresentOf(doc, metric) ==
    Present([i \in 1..Len(doc.accounts) |-> Get(doc.accounts[i].data, metric, None)])

C12_AverageOverPresent ==
    \A d \in SnapDomains :
        HasDocument(d) =>
            LET agg       == Document(d).aggregated_metrics
                delivered == PresentOf(Document(d), "delivered_count")
                rates     == PresentOf(Document(d), "complaint_rate")
            IN  /\ delivered = <<>> => agg.average_delivered = FZero
                /\ (delivered # <<>> /\ SumInts(delivered) % Len(delivered) = 0) =>
                       agg.average_delivered
                           = NatToFloat(SumInts(delivered) \div Len(delivered))
                /\ rates = <<>> => agg.average_complaint_rate = FZero
                /\ (Len(rates) \in 1..2 /\ \A i \in 1..Len(rates) : rates[i] = rates[1]) =>
                       agg.average_complaint_rate = rates[1]

\* contributions 100 and 200 and a third account without delivered_count:
\* the average is 150
C12_Witness ==
    \E d \in SnapDomains :
        /\ HasDocument(d)
        /\ Len(Document(d).accounts) = 3
        /\ Len(PresentOf(Document(d), "delivered_count")) = 2
        /\ Document(d).aggregated_metrics.average_delivered = NatToFloat(150)

(***************************************************************************)
(* C13: a call made while the store is unreachable reports it:             *)
(* save_domain_stats returns False, get_latest_domain_stats returns None   *)
(* and get_all_domains_stats returns the empty list, the call that finds   *)
(* the store unreachable included.                                         *)
(***************************************************************************)
C13_UnreachableReported ==
    (last_call.op # "none" /\ ~last_call.reachable) =>
        /\ last_call.op = "save" => last_call.ret = FALSE
        /\ last_call.op = "get_latest" => last_call.ret = None
        /\ last_call.op = "get_all" => last_call.ret = <<>>

(***************************************************************************)
(* C14: when an upsert of worker a@yahoo.com has failed on a connection    *)
(* fault, the next call, an upsert of worker b@yahoo.com issued while the  *)
(* store is reachable, is executed and its row is in the table.            *)
(***************************************************************************)
C14_FaultDoesNotBlockOthers ==
    [][(/\ last_call.op = "save"
        /\ last_call.key[1] = "a@yahoo.com"
        /\ ~last_call.reachable
        /\ last_call.ret = FALSE
        /\ last_call'.op = "save"
        /\ last_call'.key[1] = "b@yahoo.com"
        /\ last_call'.reachable)
       => /\ last_call'.ret = TRUE
          /\ \E r \in domain_stats' : Key(r) = last_call'.key]_vars

(***************************************************************************)
(* C15: stop_all_accounts has signalled every tracked worker when it       *)
(* starts to wait on the first, and when it returns no tracked worker's    *)
(* thread is alive.                                                        *)
(***************************************************************************)
C15_ShutdownTerminatesAll ==
    [][/\ (sup_pc' = "join" /\ sup_i' = 1) =>
              \A a \in Tracked : ~is_running'[a]
       /\ StopAllReturn => \A a \in Tracked : ~Alive(a)]_vars

(***************************************************************************)
(* C16: an exception raised inside a poll is caught, and when the pause    *)
(* of the except clause is over the supervisor is polling again: the       *)
(* monitor loop runs (is_running is True) over the same scrapers.          *)
(***************************************************************************)
C16_FaultCaughtPollingResumes ==
    [][(sup_pc = "except" /\ sup_pc' # "except") =>
           /\ sup_pc' = "poll"
           /\ mgr_running'
           /\ scrapers' = scrapers]_vars

(***************************************************************************)
(* C17: if no shutdown is requested, account a@yahoo.com is enabled and    *)
(* every thread of it ends, the supervisor starts a replacement thread     *)
(* for that account, after the cooldown, again and again for ever.         *)
(***************************************************************************)
C17_RestartedForever ==
    (/\ [](sup_caller # "interrupt")
     /\ <>("a@yahoo.com" \in Tracked)
     /\ [](Alive("a@yahoo.com") ~> ~Alive("a@yahoo.com")))
    => []<>(sup_pc = "respawn" /\ scrapers[sup_i] = "a@yahoo.com")

(***************************************************************************)
(* C18: once start_all_accounts_simultaneously has built the scrapers,     *)
(* and after any restarts, the tracked scrapers are the configured         *)
(* accounts that are not disabled (an entry without 'enabled' counts as    *)
(* enabled), each tracked once, and no disabled account is tracked.        *)
(***************************************************************************)
C18_OneWorkerPerEnabledAccount ==
    sup_pc \notin {"main", "start"} =>
        LET configured == ConfiguredAccounts(accounts_file, env_account)
        IN  /\ \A i \in 1..Len(configured) :
                   configured[i].email \in Tracked
                       <=> ~("enabled" \in DOMAIN configured[i]
                             /\ configured[i].enabled = FALSE)
            /\ \A a \in Tracked : \E i \in 1..Len(configured) : configured[i].email = a
            /\ Len(scrapers) = Cardinality(Tracked)

\* after a restart by the scan, the file having an entry without 'enabled',
\* an enabled one and a disabled one
C18_Witness ==
    /\ sup_pc = "scan"
    /\ Len(accounts_file) = 3
    /\ Tracked = {"a@yahoo.com", "b@yahoo.com"}
    /\ \E a \in Tracked : w_pc[a] = "setup" /\ driver[a] # None

(***************************************************************************)
(* C19: with no enabled account, start_all_accounts_simultaneously builds  *)
(* no scraper, starts no thread and does not call keep_main_thread_alive:  *)
(* it returns and the process ends.                                        *)
(***************************************************************************)
C19_NoAccountsNoWorkers ==
    (sup_pc \notin {"main", "start"} /\ enabled_accounts = <<>>) =>
        /\ sup_pc = "no_accounts"
        /\ scrapers = <<>>
        /\ monitor_count = <<>>
        /\ \A a \in Accounts : w_pc[a] = "new"

\* the accounts of the file are all disabled
C19_Witness ==
    /\ sup_pc = "no_accounts"
    /\ accounts_file # <<>>
    /\ enabled_accounts = <<>>

(***************************************************************************)
(* C20: after an upsert of a record with has_data = False was executed,    *)
(* the table holds one row of its key (account, domain, day), that row     *)
(* carries the record with has_data = False, and every other row of the    *)
(* account and domain is older.                                            *)
(***************************************************************************)
C20_NoDataPersisted ==
    (/\ last_call.op = "save"
     /\ last_call.reachable
     /\ last_call.ret = TRUE
     /\ latest_input[last_call.key].has_data = FALSE)
    => LET k    == last_call.key
           rows == {r \in domain_stats : Key(r) = k}
       IN  /\ Cardinality(rows) = 1
           /\ \A r \in rows :
                  /\ r.has_data = FALSE
                  /\ Values(r) = latest_input[k]
                  /\ \A q \in domain_stats \ rows :
                         (q.account_email = k[1] /\ q.domain_name = k[2])
                             => q.timestamp < r.timestamp

\* a NoData record written over the row of the same key, whose id it keeps
C20_Witness ==
    /\ last_call.op = "save"
    /\ last_call.reachable
    /\ last_call.ret = TRUE
    /\ latest_input[last_call.key].has_data = FALSE
    /\ \E r \in domain_stats :
           /\ Key(r) = last_call.key
           /\ r.id < id_seq - 1
           /\ r.has_data = FALSE

(***************************************************************************)
(* C21: a batch ends only when every one of its entities was attempted,    *)
(* failures included, and the step on which an entity fails takes nothing  *)
(* from the table: the rows saved for the entities before it remain.       *)
(***************************************************************************)
C21_FailureIsolated ==
    [][/\ batch_pc' = "done" => Len(batch_log') = Len(batch_domains')
       /\ (/\ Len(batch_log') = Len(batch_log) + 1
           /\ batch_log'[Len(batch_log')] = "failed")
          => /\ domain_stats' = domain_stats
             /\ batch_pc' = "running"]_vars

\* a batch of two entities: the first was saved, the second failed, and the
\* row of the first is in the table
C21_Witness ==
    /\ batch_pc = "done"
    /\ batch_log = <<"saved", "failed">>
    /\ \E r \in domain_stats :
           /\ r.domain_name = batch_domains[1]
           /\ r.account_email = BatchAccount
           /\ r.timestamp = now

(***************************************************************************)
(* C22: a thread is created or started for an account (at startup, by the  *)
(* scan or by a fleet restart) only when no thread of that account is      *)
(* alive, so that no account ever has two live threads.                    *)
(***************************************************************************)
C22_OneLiveThreadPerAccount ==
    [][\A a \in Accounts :
           (w_pc'[a] # w_pc[a] /\ w_pc'[a] \in {"new", "setup"}) => ~Alive(a)]_vars

\* the first thread of a fleet restart runs, over the scraper built for it
C22_Witness ==
    /\ sup_caller = "restart"
    /\ sup_pc = "spawn"
    /\ sup_i = 2
    /\ Alive(scrapers[1])

(***************************************************************************)
(* C23: a step that changes the table is an upsert and leaves every row    *)
(* of another (account_email, domain_name, date) key as it was; and two    *)
(* upserts of different accounts give the same rows in either order (the   *)
(* rows compared on every column but id, which numbers the insertions).    *)
(***************************************************************************)
C23_UpsertTouchesOwnKeyOnly ==
    [][LET OtherRows(table, k) == {r \in table : Key(r) # k}
           UpsertBoth(v, w) ==
               {Values(r) : r \in Upsert(Upsert(domain_stats, v, id_seq, now),
                                         w, id_seq + 1, now)}
       IN  /\ domain_stats' # domain_stats =>
                  /\ last_call'.op = "save"
                  /\ OtherRows(domain_stats', last_call'.key)
                         = OtherRows(domain_stats, last_call'.key)
           /\ \A s1, s2 \in DbShapes, d1, d2 \in Domains :
                  LET v == InsertValues(StatsOf(s1, d1, now), "a@yahoo.com",
                                        Today(now))
                      w == InsertValues(StatsOf(s2, d2, now), "b@yahoo.com",
                                        Today(now))
                  IN  UpsertBoth(v, w) = UpsertBoth(w, v)]_vars

\* an upsert of b@yahoo.com next to the row of a@yahoo.com for the same
\* domain and day
C23_Witness ==
    /\ last_call.op = "save"
    /\ last_call.ret = TRUE
    /\ last_call.key[1] = "b@yahoo.com"
    /\ \E r, q \in domain_stats :
           /\ r.account_email = "a@yahoo.com"
           /\ q.account_email = "b@yahoo.com"
           /\ r.domain_name = q.domain_name
           /\ r.date = q.date
           /\ r.id < q.id

(***************************************************************************)
(* C24: get_latest_domain_stats called while the store is reachable        *)
(* returns a row of the domain (and of the account, when one is given)     *)
(* whose timestamp is the greatest among the matching rows, and returns    *)
(* None exactly when no row matches.                                       *)
(***************************************************************************)
C24_LatestIsMaxOrNone ==
    (last_call.op = "get_latest" /\ last_call.reachable) =>
        LET rows == RowsOfDomain(domain_stats, last_call.domain,
                                 last_call.account_email)
        IN  IF rows = {} THEN last_call.ret = None
            ELSE /\ last_call.ret # None
                 /\ last_call.ret[1] \in rows
                 /\ \A r \in rows : r.timestamp <= last_call.ret[1].timestamp

(***************************************************************************)
(* C25: in the cycle loop a batch that succeeds (the hourly wait follows)  *)
(* sets consecutive_failures to 0, a batch that fails (it returns False    *)
(* or raises) adds exactly 1 to it, and no step that is not a batch        *)
(* changes it.                                                             *)
(***************************************************************************)
C25_FailuresCounted ==
    [][\A a \in WorkerAccounts :
           LET batch == /\ w_pc[a] = "cycle"
                        /\ sleep_left[a] = 0
                        /\ is_running[a]
                        /\ consecutive_failures[a] < MaxConsecutiveFailures
                        /\ is_running'[a]
               succeeded == batch /\ w_pc'[a] = "hourly"
           IN  /\ succeeded => consecutive_failures'[a] = 0
               /\ (batch /\ ~succeeded) =>
                      consecutive_failures'[a] = consecutive_failures[a] + 1
               /\ ~batch => consecutive_failures'[a] = consecutive_failures[a]]_vars

\* two batches failed in a row, one returning False and one raising, and the
\* thread sleeps before the third
C25_Witness ==
    \E a \in WorkerAccounts :
        /\ w_pc[a] = "cycle"
        /\ consecutive_failures[a] = 2
        /\ cycle_count[a] = 1
        /\ sleep_left[a] = RetryDelay(2)
        /\ is_running[a]

(***************************************************************************)
(* C26: the sleep that follows a failed batch is min(300 * n, 1800)        *)
(* seconds, n being consecutive_failures after its increment, which is     *)
(* less than the hour and at most the cap; the wait that follows a         *)
(* successful batch is made of sleeps of 300 seconds, and a worker that    *)
(* was not stopped leaves it after 12 of them, the full hour.              *)
(***************************************************************************)
C26_DelayAfterBatch ==
    [][\A a \in WorkerAccounts :
           /\ (w_pc[a] = "cycle" /\ sleep_left'[a] > sleep_left[a]) =>
                  /\ sleep_left'[a] =
                         Min(300 * consecutive_failures'[a], 1800)
                  /\ consecutive_failures'[a] = consecutive_failures[a] + 1
                  /\ sleep_left'[a] < 3600
                  /\ sleep_left'[a] <= 1800
           /\ (w_pc[a] = "hourly" /\ sleep_left'[a] > sleep_left[a]) =>
                  sleep_left'[a] = 300 /\ wait_i'[a] = wait_i[a] + 1
           /\ (w_pc[a] = "hourly" /\ w_pc'[a] = "cycle" /\ is_running[a]) =>
                  wait_i[a] * 300 = 3600]_vars

\* the longest delay: the fifth failure in a row, of a batch that returned
\* False
C26_Witness ==
    \E a \in WorkerAccounts :
        /\ w_pc[a] = "cycle"
        /\ consecutive_failures[a] = 5
        /\ sleep_left[a] = 1500

(***************************************************************************)
(* C27: a thread that left the cycle loop has consecutive_failures at the  *)
(* threshold of 5 or was asked to stop; and a batch is started only by a   *)
(* thread that was not asked to stop and whose consecutive_failures is     *)
(* below 5.                                                                *)
(***************************************************************************)
C27_LoopEndsOnThresholdOrStop ==
    [][\A a \in WorkerAccounts :
           /\ w_pc'[a] = "exit_loop" =>
                  consecutive_failures'[a] >= 5 \/ ~is_running'[a]
           /\ (/\ w_pc[a] = "cycle"
               /\ \/ consecutive_failures'[a] # consecutive_failures[a]
                  \/ cycle_count'[a] # cycle_count[a]
                  \/ w_pc'[a] = "hourly")
              => is_running[a] /\ consecutive_failures[a] < 5]_vars

\* the thread ended on the fifth failure in a row, not having been stopped
C27_Witness ==
    \E a \in WorkerAccounts :
        /\ w_pc[a] = "exit_loop"
        /\ consecutive_failures[a] = 5
        /\ is_running[a]

(***************************************************************************)
(* C28: setup_persistent_driver makes at most 3 attempts; after the k-th   *)
(* failed attempt, k < 3, it sleeps 15 * k seconds, and after the third it *)
(* does not sleep; when the third attempt fails the thread ends, having    *)
(* attempted no login and run no batch, and it attempts none afterwards.   *)
(***************************************************************************)
C28_SetupBoundedLinearBackoff ==
    [][\A a \in WorkerAccounts :
           /\ setup_attempt'[a] < 3
           /\ (w_pc[a] = "setup" /\ sleep_left'[a] > sleep_left[a]) =>
                  /\ setup_attempt'[a] = setup_attempt[a] + 1
                  /\ sleep_left'[a] = 15 * setup_attempt'[a]
                  /\ w_pc'[a] = "setup"
           /\ (w_pc[a] = "setup" /\ w_pc'[a] = "exit_setup") =>
                  /\ setup_attempt[a] = 2
                  /\ sleep_left'[a] = 0
           /\ w_pc'[a] = "exit_setup" =>
                  /\ init_attempt'[a] = 0
                  /\ login_attempt'[a] = 0
                  /\ cycle_count'[a] = 0
                  /\ ~logged_in'[a]
           /\ w_pc[a] = "exit_setup" => w_pc'[a] = "exit_setup"]_vars

\* the third attempt failed after sleeps of 15 and 30 seconds
C28_Witness ==
    \E a \in WorkerAccounts :
        /\ w_pc[a] = "exit_setup"
        /\ setup_attempt[a] = 2
        /\ sleep_left[a] = 0
        /\ is_running[a]

(***************************************************************************)
(* C29 as stated: guaranteed_login makes at most 3 attempts and returns    *)
(* when the third has ended; every attempt ends in success, in a field     *)
(* not found or in a failed verification; an attempt that failed and is    *)
(* not the last is followed by a backoff that does not depend on the       *)
(* attempt, and by a retry; True is returned if and only if an attempt     *)
(* ended in success.                                                       *)
(***************************************************************************)
C29_BoundedLoginThreeEndings ==
    [][/\ Len(gl_ended') <= 3
       /\ \A i \in 1..Len(gl_ended') :
              gl_ended'[i] \in {"already_logged_in", "success",
                                "signin_not_found", "username_not_found",
                                "next_not_found", "password_not_found",
                                "verification_failed"}
       /\ (/\ gl_pc = "attempt"
           /\ gl_ended'[Len(gl_ended')] \notin Successes
           /\ Len(gl_ended') < 3) =>
              /\ gl_pc' = "sleep"
              /\ gl_sleep' \in {10, 15}
              /\ gl_return' = None
       /\ gl_pc = "sleep" => gl_pc' = "attempt" /\ gl_ended' = gl_ended
       /\ (gl_pc = "attempt" /\ Len(gl_ended') = 3) => gl_pc' = "returned"
       /\ gl_pc' = "returned" =>
              /\ gl_return' \in {Some(TRUE), Some(FALSE)}
              /\ gl_return' = Some(TRUE) <=>
                     \E i \in 1..Len(gl_ended') : gl_ended'[i] \in Successes]_vars

(***************************************************************************)
(* C29, amended: as above, but an attempt may also end in an exception     *)
(* that the handler of the attempt catches, which counts as a failed       *)
(* attempt; the backoff is 10 seconds after an attempt that found no       *)
(* sign-in element and 15 seconds after any other failed attempt.          *)
(***************************************************************************)
C29_BoundedLoginFourEndings ==
    [][/\ Len(gl_ended') <= 3
       /\ \A i \in 1..Len(gl_ended') :
              gl_ended'[i] \in {"already_logged_in", "success",
                                "signin_not_found", "username_not_found",
                                "next_not_found", "password_not_found",
                                "verification_failed", "exception"}
       /\ (/\ gl_pc = "attempt"
           /\ gl_ended'[Len(gl_ended')] \notin Successes
           /\ Len(gl_ended') < 3) =>
              /\ gl_pc' = "sleep"
              /\ gl_sleep' = IF gl_ended'[Len(gl_ended')] = "signin_not_found"
                             THEN 10 ELSE 15
              /\ gl_return' = None
       /\ gl_pc = "sleep" => gl_pc' = "attempt" /\ gl_ended' = gl_ended
       /\ (gl_pc = "attempt" /\ Len(gl_ended') = 3) => gl_pc' = "returned"
       /\ gl_pc' = "returned" =>
              /\ gl_return' \in {Some(TRUE), Some(FALSE)}
              /\ gl_return' = Some(TRUE) <=>
                     \E i \in 1..Len(gl_ended') : gl_ended'[i] \in Successes]_vars

\* an exception, then no sign-in element, then the third attempt succeeds
C29_Witness ==
    /\ gl_pc = "returned"
    /\ gl_ended = <<"exception", "signin_not_found", "success">>
    /\ gl_return = Some(TRUE)

(***************************************************************************)
(* C30: an attempt that submitted the form ends in success if and only if  *)
(* at least one of the three signals holds on the page: an indicator is    *)
(* displayed, the URL is one of the dashboard, or the page source holds a  *)
(* marker.                                                                 *)
(***************************************************************************)
C30_VerifiedIffSomeSignal ==
    (/\ Len(gl_ended) > 0
     /\ gl_ended[Len(gl_ended)] \in {"success", "verification_failed"}) =>
        (gl_ended[Len(gl_ended)] = "success" <=>
             (gl_page.indicator \/ gl_page.url \/ gl_page.content))

\* the marker in the page source alone made the attempt a success
C30_Witness ==
    /\ Len(gl_ended) > 0
    /\ gl_ended[Len(gl_ended)] = "success"
    /\ gl_page = [indicator |-> FALSE, url |-> FALSE, content |-> TRUE]
    /\ gl_logged_in

(***************************************************************************)
(* C34: consecutive_failures stays within 0..5; a batch is started only    *)
(* with consecutive_failures below 5; and a backoff slept after a failed   *)
(* batch is of at most 1500 seconds, the cap of 1800 never being reached.  *)
(***************************************************************************)
C34_FailuresAndBackoffBounded ==
    [][\A a \in WorkerAccounts :
           /\ consecutive_failures[a] \in 0..5
           /\ consecutive_failures'[a] \in 0..5
           /\ (/\ w_pc[a] = "cycle"
               /\ \/ cycle_count'[a] # cycle_count[a]
                  \/ consecutive_failures'[a] # consecutive_failures[a]
                  \/ w_pc'[a] = "hourly")
              => consecutive_failures[a] < 5
           /\ (w_pc[a] = "cycle" /\ sleep_left'[a] > sleep_left[a])
              => sleep_left'[a] <= 1500 /\ sleep_left'[a] < MaxRetryDelay]_vars

\* the fifth failure in a row and its backoff of 1500 seconds slept out
C34_Witness ==
    \E a \in WorkerAccounts :
        /\ w_pc[a] = "cycle"
        /\ consecutive_failures[a] = 5
        /\ sleep_left[a] = 0
        /\ is_running[a]

(***************************************************************************)
(* C38: with the merges run one after the other, a merge that changes the  *)
(* document of an entity changes the entry of one account, the merging     *)
(* one, and leaves the entry of every other account as it was; the         *)
(* contributing accounts of the new document include those of the old one  *)
(* and are the accounts that have merged.                                  *)
(***************************************************************************)
C38_MergeChangesOwnEntryOnly ==
    [][\A d \in SnapDomains :
           files'[d] # files[d] =>
               LET old == IF HasDocument(d)
                          THEN {Document(d).accounts[i] :
                                    i \in 1..Len(Document(d).accounts)}
                          ELSE {}
                   new == {files'[d].text[1].accounts[i] :
                               i \in 1..Len(files'[d].text[1].accounts)}
               IN  /\ files'[d].exists /\ files'[d].text # None
                   /\ \E a \in Accounts :
                          /\ \E e \in new : e.email = a
                          /\ {e \in new : e.email # a} = {e \in old : e.email # a}
                   /\ {e.email : e \in old} \subseteq {e.email : e \in new}
                   /\ {e.email : e \in new} = merged'[d]]_vars

\* the third account merged into a document that held the entries of two
C38_Witness ==
    \E d \in SnapDomains :
        /\ HasDocument(d)
        /\ merges = 3
        /\ Contributors(Document(d)) = Accounts
        /\ merged[d] = Accounts

(***************************************************************************)
(* C37: the browsers held open by the scrapers are never more than the     *)
(* threads alive, and the scraper of a thread that ended holds none: a     *)
(* thread quits its browser before it ends.                                *)
(***************************************************************************)
C37_HandlesReleased ==
    /\ Cardinality({a \in Accounts : driver[a] # None})
           <= Cardinality({a \in Accounts : Alive(a)})
    /\ \A a \in Accounts : ~Alive(a) => driver[a] = None

(***************************************************************************)
(* C33: every row of scraping_sessions whose status is completed or failed *)
(* has its session_end set, and a row whose status is running has none.    *)
(***************************************************************************)
C33_ClosedSessionsHaveEnd ==
    \A r \in scraping_sessions :
        /\ r.status \in {"completed", "failed"} => r.session_end # None
        /\ r.status = "running" => r.session_end = None

(***************************************************************************)
(* C36: within one run of the process db_available, once false, stays      *)
(* false, whatever the server does; and a call of save_domain_stats,       *)
(* get_latest_domain_stats, start_scraping_session or                      *)
(* update_scraping_session made while it is false changes no table and     *)
(* returns False, None, the id 1 of no new row, and nothing.  (A step that *)
(* leaves db_up as it is and is not the start of a new process is a call.) *)
(***************************************************************************)
C36_UnavailableForGood ==
    [][(db_up' = db_up /\ last_call'.op # "init_database" /\ ~db_available) =>
           /\ ~db_available'
           /\ domain_stats' = domain_stats
           /\ id_seq' = id_seq
           /\ UNCHANGED auditVars
           /\ last_call'.op = "save" => last_call'.ret = FALSE
           /\ last_call'.op = "get_latest" => last_call'.ret = None
           /\ last_call'.op = "start_session" => last_call'.ret = 1
           /\ last_call'.op = "update_session" => last_call'.ret = None]_vars

\* the server is up again, a session is open, and a call to start another
\* returned 1 without a row
C36_Witness ==
    /\ ~db_available
    /\ db_up
    /\ last_call.op = "start_session"
    /\ last_call.ret = 1
    /\ \E r \in scraping_sessions : r.id = 1
    /\ session_seq = 2

(***************************************************************************)
(* C39: when a process starts and its init_database has dropped and made   *)
(* the tables, domain_stats, scraping_sessions and scraping_accounts are   *)
(* empty, whatever the run before left in them; and the steps of a restart *)
(* of the fleet inside a process (restart_all_scrapers, with the           *)
(* stop_all_accounts and start_all_accounts_simultaneously it calls) leave *)
(* the tables as they are.                                                 *)
(***************************************************************************)
C39_TablesEmptiedAtProcessStartOnly ==
    [][/\ (~ProcessAlive /\ sup_pc' = "main" /\ last_call'.reachable) =>
              /\ domain_stats' = {}
              /\ scraping_sessions' = {}
              /\ scraping_accounts' = {}
       /\ (/\ \/ sup_pc \in {"restart_all", "restart"}
              \/ sup_pc = "join" /\ sup_caller = "restart"
           /\ <<sup_pc, sup_i>>' # <<sup_pc, sup_i>>) =>
              /\ domain_stats' = domain_stats
              /\ id_seq' = id_seq
              /\ UNCHANGED auditVars]_vars

\* the fleet is started again inside a process, the row of a batch of the
\* stopped fleet being in the table
C39_Witness ==
    /\ sup_pc = "restart"
    /\ domain_stats # {}
    /\ last_call.op = "save"

(***************************************************************************)
(* C31: a call of ensure_browser_alive that finds the browser of           *)
(* self.driver dead leaves self.logged_in False and the dead browser       *)
(* gone: self.driver is a new browser, not logged in, or None when         *)
(* setup_persistent_driver found none; it returns True only with a new     *)
(* browser; consecutive_failures, cycle_count and the rows of              *)
(* domain_stats are as before.                                             *)
(***************************************************************************)
C31_DeadBrowserReplaced ==
    [][\A a \in WorkerAccounts :
           (/\ last_validity'[a] # last_validity[a]
            /\ last_validity'[a].op = "ensure_browser_alive"
            /\ driver[a] # None
            /\ browser_dead[a]) =>
               /\ ~logged_in'[a]
               /\ ~browser_dead'[a]
               /\ ~session_valid'[a]
               /\ last_validity'[a].ret => driver'[a] = Browser
               /\ consecutive_failures'[a] = consecutive_failures[a]
               /\ cycle_count'[a] = cycle_count[a]
               /\ w_pc'[a] = w_pc[a]
               /\ domain_stats' = domain_stats]_vars

\* after two failed batches and a saved row: the browser was replaced, the
\* scraper is not logged in
C31_Witness ==
    \E a \in WorkerAccounts :
        /\ w_pc[a] = "cycle"
        /\ last_validity[a].op = "ensure_browser_alive"
        /\ last_validity[a].ret
        /\ driver[a] = Browser
        /\ ~logged_in[a]
        /\ consecutive_failures[a] = 2
        /\ domain_stats # {}

(***************************************************************************)
(* C32: a call of safe_refresh_browser returns True only with a browser    *)
(* that answers and whose page shows the dashboard; and when the call      *)
(* found the page not showing it (or the browser dead), only after a       *)
(* guaranteed_login that succeeded, which leaves self.logged_in True.      *)
(***************************************************************************)
C32_RefreshSuccessMeansAuthenticated ==
    [][\A a \in WorkerAccounts :
           (/\ last_validity'[a] # last_validity[a]
            /\ last_validity'[a].op = "safe_refresh_browser"
            /\ last_validity'[a].ret) =>
               /\ driver'[a] # None
               /\ ~browser_dead'[a]
               /\ session_valid'[a]
               /\ ~(driver[a] # None /\ ~browser_dead[a] /\ session_valid[a])
                      => logged_in'[a]]_vars

\* the refresh reported success on a browser made anew and logged in again
C32_Witness ==
    \E a \in WorkerAccounts :
        /\ last_validity[a].op = "safe_refresh_browser"
        /\ last_validity[a].ret
        /\ session_valid[a]
        /\ logged_in[a]
        /\ cycle_count[a] = 1

(***************************************************************************)
(* C35: when a call of guaranteed_login, ensure_logged_in or               *)
(* safe_refresh_browser returns False, self.logged_in is False.            *)
(***************************************************************************)
C35_FlagFalseAfterFailure ==
    [][\A a \in WorkerAccounts :
           (/\ last_validity'[a] # last_validity[a]
            /\ last_validity'[a].op \in {"guaranteed_login", "ensure_logged_in",
                                         "safe_refresh_browser"}
            /\ ~last_validity'[a].ret) => ~logged_in'[a]]_vars

====
